---- MODULE Spec2Model ----
(***************************************************************************)
(* Remote memory readers of the haywire scripts: the text-monitor readers  *)
(* (display_memory.py, find_elf_sections.py, find_video_memory.py,         *)
(* scan_for_video.py), their callers, and the GDB/QMP region scan          *)
(* (scan_memory_regions.py).                                               *)
(*                                                                         *)
(* Text is a sequence of one-character strings, so that formatting,        *)
(* splitting and hex parsing are computed the way the Python code does.    *)
(***************************************************************************)
EXTENDS Integers, Sequences, FiniteSets, TLC

(***************************************************************************)
(* Text helpers: Python's str operations used by the readers.              *)
(***************************************************************************)

HexChars == <<"0","1","2","3","4","5","6","7","8","9","a","b","c","d","e","f">>

\* value of a hexadecimal digit as int(..., 16) reads it (both cases), -1 otherwise
DigitVal(c) ==
    CASE c = "0" -> 0 [] c = "1" -> 1 [] c = "2" -> 2 [] c = "3" -> 3
      [] c = "4" -> 4 [] c = "5" -> 5 [] c = "6" -> 6 [] c = "7" -> 7
      [] c = "8" -> 8 [] c = "9" -> 9
      [] c \in {"a", "A"} -> 10 [] c \in {"b", "B"} -> 11
      [] c \in {"c", "C"} -> 12 [] c \in {"d", "D"} -> 13
      [] c \in {"e", "E"} -> 14 [] c \in {"f", "F"} -> 15
      [] OTHER -> -1

\* str.split() / str.strip() whitespace
IsSpace(c) == c \in {" ", "\t", "\r", "\n"}

\* f"{n:x}"
RECURSIVE FormatHex(_)
FormatHex(n) ==
    IF n < 16 THEN <<HexChars[n + 1]>>
    ELSE FormatHex(n \div 16) \o <<HexChars[(n % 16) + 1]>>

\* f"{n}" for n >= 0
RECURSIVE FormatDec(_)
FormatDec(n) ==
    IF n < 10 THEN <<HexChars[n + 1]>>
    ELSE FormatDec(n \div 10) \o <<HexChars[(n % 10) + 1]>>

\* index of the first c in s, 0 when there is none  (str.find + 1)
FindChar(s, c) ==
    IF \E i \in 1..Len(s) : s[i] = c
    THEN CHOOSE i \in 1..Len(s) : s[i] = c /\ \A j \in 1..(i - 1) : s[j] # c
    ELSE 0

\* index of the first c in s at or after position p, 0 when there is none
FindFrom(s, c, p) ==
    IF \E i \in p..Len(s) : s[i] = c
    THEN CHOOSE i \in p..Len(s) : s[i] = c /\ \A j \in p..(i - 1) : s[j] # c
    ELSE 0

\* s.split(c): the pieces between the occurrences of the character c.  The
\* text is cut at the occurrence that follows its middle (or at the first one)
\* and both sides are split, which keeps TLC's evaluation shallow.
RECURSIVE SplitOn(_, _)
SplitOn(s, c) ==
    LET m == FindFrom(s, c, (Len(s) \div 2) + 1)
        i == IF m > 0 THEN m ELSE FindChar(s, c)
    IN IF i = 0 THEN <<s>>
       ELSE SplitOn(SubSeq(s, 1, i - 1), c) \o SplitOn(SubSeq(s, i + 1, Len(s)), c)

\* the substring test  "0x" in line
Contains0x(s) == \E i \in 1..(Len(s) - 1) : s[i] = "0" /\ s[i + 1] = "x"

\* hex_str.startswith('0x')
StartsWith0x(t) == Len(t) >= 2 /\ t[1] = "0" /\ t[2] = "x"

\* s.strip().split(): the maximal runs of non-whitespace characters, in order
RECURSIVE SplitWs(_)
SplitWs(s) ==
    IF \A i \in 1..Len(s) : IsSpace(s[i]) THEN <<>>
    ELSE LET b == CHOOSE i \in 1..Len(s) :
                    ~IsSpace(s[i]) /\ \A j \in 1..(i - 1) : IsSpace(s[j])
             e == IF \E i \in b..Len(s) : IsSpace(s[i])
                  THEN CHOOSE i \in b..Len(s) :
                         IsSpace(s[i]) /\ \A j \in b..(i - 1) : ~IsSpace(s[j])
                  ELSE Len(s) + 1
         IN <<SubSeq(s, b, e - 1)>> \o SplitWs(SubSeq(s, e, Len(s)))

\* value of a run of hexadecimal digits, most significant first
RECURSIVE DigitsVal(_)
DigitsVal(d) ==
    IF d = <<>> THEN 0
    ELSE DigitsVal(SubSeq(d, 1, Len(d) - 1)) * 16 + DigitVal(d[Len(d)])

\* int(hex_str, 16) for a token that starts with "0x": the value, or -1 where
\* Python raises ValueError.  After the prefix Python wants digits, which single
\* underscores may separate (and one may follow the prefix).
PyIntHex(t) ==
    LET r == SubSeq(t, 3, Len(t))
        ok == /\ Len(r) > 0
              /\ \A i \in 1..Len(r) : DigitVal(r[i]) >= 0 \/ r[i] = "_"
              /\ r[Len(r)] # "_"
              /\ \A i \in 1..(Len(r) - 1) : ~(r[i] = "_" /\ r[i + 1] = "_")
        ds == SelectSeq(r, LAMBDA c : c # "_")
    IN IF ok THEN DigitsVal(ds) ELSE -1

(***************************************************************************)
(* The parse loop of the text-monitor readers.  The four readers share its *)
(* shape and differ in three places: the line test ('0x' in line and ':'   *)
(* in line, or ':' in line alone), the container (a list takes any int, a  *)
(* bytearray raises ValueError outside 0..255, swallowed by the bare       *)
(* except), and the break once the requested count is reached.             *)
(***************************************************************************)

\* for hex_str in hex_part.split(): ...   acc is the list being appended to;
\* the counter (bytes_read, offset) always equals its length
RECURSIVE TokenLoop(_, _, _, _, _)
TokenLoop(toks, acc, size, byteOnly, hasBreak) ==
    IF toks = <<>> THEN acc
    ELSE LET t == Head(toks)
             v == PyIntHex(t)
         IN IF ~StartsWith0x(t) THEN TokenLoop(Tail(toks), acc, size, byteOnly, hasBreak)
            ELSE IF v < 0 \/ (byteOnly /\ v > 255)
                 THEN TokenLoop(Tail(toks), acc, size, byteOnly, hasBreak)
                 ELSE IF Len(acc) + 1 >= size /\ hasBreak
                      THEN Append(acc, v)
                      ELSE TokenLoop(Tail(toks), Append(acc, v), size, byteOnly, hasBreak)

\* the body of  for line in response.split('\n'):  for one line
LineBody(line, acc, size, need0x, byteOnly, hasBreak) ==
    LET parts == SplitOn(line, ":")
    IN IF (need0x => Contains0x(line)) /\ FindChar(line, ":") > 0 /\ Len(parts) > 1
       THEN TokenLoop(SplitWs(parts[2]), acc, size, byteOnly, hasBreak)
       ELSE acc

\* for line in response.split('\n'): ...  The lines are gone through in order:
\* the first half of them, then the second half starting from the list the
\* first half left.  The list only grows; comparing the lengths has TLC work
\* out the first half before it begins the second.
RECURSIVE LineLoop(_, _, _, _, _, _)
LineLoop(lines, acc, size, need0x, byteOnly, hasBreak) ==
    IF lines = <<>> THEN acc
    ELSE IF Len(lines) = 1
         THEN LineBody(lines[1], acc, size, need0x, byteOnly, hasBreak)
         ELSE LET h == Len(lines) \div 2
                  first == LineLoop(SubSeq(lines, 1, h), acc, size, need0x,
                                    byteOnly, hasBreak)
              IN IF Len(first) >= Len(acc)
                 THEN LineLoop(SubSeq(lines, h + 1, Len(lines)), first, size,
                               need0x, byteOnly, hasBreak)
                 ELSE first

\* display_memory.py: list, '0x' and ':' in line, break at size
ParseRegion(response, all_bytes, size) ==
    LineLoop(SplitOn(response, "\n"), all_bytes, size, TRUE, FALSE, TRUE)

\* find_elf_sections.py: bytearray, ':' in line, break at size
ParseElf(response, data, size) ==
    LineLoop(SplitOn(response, "\n"), data, size, FALSE, TRUE, TRUE)

\* find_video_memory.py: list, '0x' and ':' in line, no break
ParseVideo(response) ==
    LineLoop(SplitOn(response, "\n"), <<>>, 0, TRUE, FALSE, FALSE)

\* scan_for_video.py: list, '0x' and ':' in line, no break
ParseSample(response) ==
    LineLoop(SplitOn(response, "\n"), <<>>, 0, TRUE, FALSE, FALSE)

(***************************************************************************)
(* The peer: a monitor that answers xp/<count>xb 0x<addr> from guest       *)
(* memory.  Mem is the guest's memory content.                             *)
(***************************************************************************)

Mem(a) == ((a % 256) * 5 + ((a \div 256) % 7) * 3) % 256

\* "0x%02x"
FormatByte(b) == <<"0", "x", HexChars[(b \div 16) + 1], HexChars[(b % 16) + 1]>>

\* "%016x"
PadHex16(n) ==
    LET h == FormatHex(n) IN [i \in 1..(16 - Len(h)) |-> "0"] \o h

RECURSIVE FormatBytes(_, _)
FormatBytes(a, n) ==
    IF n = 0 THEN <<>>
    ELSE <<" ">> \o FormatByte(Mem(a)) \o FormatBytes(a + 1, n - 1)

\* one line of a dump: the address, a colon, the bytes, the line end
FormatLine(a, k, lay) ==
    (IF lay.pad THEN PadHex16(a) ELSE <<"0", "x">> \o FormatHex(a))
    \o <<":">> \o FormatBytes(a, k) \o lay.eol

\* the reply lines for n bytes at a, lay.perLine bytes on each line (the lines
\* of the first half, then those of the second)
RECURSIVE FormatDump(_, _, _)
FormatDump(a, n, lay) ==
    IF n <= 0 THEN <<>>
    ELSE IF n <= lay.perLine THEN FormatLine(a, n, lay)
         ELSE LET lines == (n + lay.perLine - 1) \div lay.perLine
                  k == (lines \div 2) * lay.perLine
              IN FormatDump(a, k, lay) \o FormatDump(a + k, n - k, lay)

\* f"xp/{chunk_size}xb 0x{address + bytes_read:x}\n"
FormatCmd(count, addr) ==
    <<"x", "p", "/">> \o FormatDec(count) \o <<"x", "b", " ", "0", "x">>
    \o FormatHex(addr) \o <<"\n">>

\* value of a run of decimal digits
RECURSIVE DecVal(_)
DecVal(d) ==
    IF d = <<>> THEN 0
    ELSE DecVal(SubSeq(d, 1, Len(d) - 1)) * 10 + DigitVal(d[Len(d)])

\* the monitor's reading of a request line  xp/<count>xb 0x<addr>
ParseCmd(cmd) ==
    LET slash == FindChar(cmd, "/")
        sp == FindChar(cmd, " ")
    IN [count |-> DecVal(SubSeq(cmd, slash + 1, sp - 3)),
        addr |-> PyIntHex(SubSeq(cmd, sp + 1, Len(cmd) - 1))]

(***************************************************************************)
(* Bounds of the model and constants of the program.                       *)
(***************************************************************************)

\* min(256, ...): the chunk of the chunked readers
ChunkCap == 256
\* s.recv(8192): the reply buffer of the text readers
RecvMax == 8192
\* s.recv(1024): the greeting buffer
GreetMax == 1024
\* read_memory_sample(addr, 512) in scan_memory_ranges
SampleSize == 512
\* read_memory(addr, 256) in find_video_patterns
VideoSize == 256
\* 16*16*3 in save_sample
SampleImage == 768

\* replies that are neither the requested dump nor empty of bytes, per read
MaxNoise == 1
\* the count of requests for one address saturates here
MaxAttempts == 3
\* the live profile is explored for reads up to this size
MaxLiveSize == 512
\* gdb.recv(4096), qmp.recv(4096)
ScanRecvMax == 4096
\* sample_size = 4096 in scan_memory_regions
ScanSampleSize == 4096
\* read_memory_gdb(gdb, addr, 256) in the closer scan
CloserSize == 256
\* regions of the list that scan_memory_regions goes through
MaxRegions == 2
\* offsets of the closer scan that are gone through
MaxOffsets == 1
\* bytes in a reply of the GDB stub
MaxGdbBytes == 12

Min(a, b) == IF a < b THEN a ELSE b

\* the regions of the list whose address is below 2^31, in the list's order
Regions ==
    <<0, 1073741824, 134217728, 150994944, 167772160, 268435456, 1056899072,
      1342177280>>

TextEntries == {"region", "elf", "video", "sample"}

\* (width, height) of display_memory_as_image
Dims == {<<1, 1>>, <<43, 2>>, <<16, 16>>}
\* sizes read_memory of find_elf_sections.py is called with (64 and 56 * 8 by
\* its callers), and sizes around one chunk
ElfSizes == {64, 256, 257}
\* 0x40000000 and an address that is not a multiple of 16
Addresses == {1073741824, 1073745913}

\* how the monitor lays a dump out: bytes on a line, address style, line end
Layouts ==
    { [perLine |-> 8, pad |-> TRUE, eol |-> <<"\r", "\n">>],
      [perLine |-> 16, pad |-> FALSE, eol |-> <<"\n">>],
      [perLine |-> 5, pad |-> FALSE, eol |-> <<"\n">>] }

Greeting == <<"Q", "E", "M", "U", " ", "m", "o", "n", "i", "t", "o", "r", "\r", "\n", "(", "q", "e", "m", "u", ")", " ">>

\* a reply with no byte in it
GarbageText == <<"b", "a", "d", ":", " ", "0", "x", "\r", "\n", "(", "q", "e", "m", "u", ")", " ">>

\* replies with something other than the requested dump
OddReplies(req) ==
    { \* tokens wider than a byte
      <<"0", "x", "1", "0", ":", " ", "0", "x", "1", "f", "f", " ", "0", "x", "1", "0", "0", "\n">>,
      \* tokens that are not hexadecimal around one that is
      <<"0", "x", "1", "0", ":", " ", "z", "z", " ", "0", "x", "z", "z", " ", "0", "x", " ", "7", " ", "0", "x", "0", "7", "\n">>,
      \* a second colon on the line
      <<"0", "x", "1", "0", ":", " ", "0", "x", "0", "1", " ", "0", "x", "0", "2", ":", " ", "0", "x", "0", "3", "\n">>,
      \* more bytes than were asked for
      FormatDump(req.addr, req.count + 2, [perLine |-> 8, pad |-> TRUE, eol |-> <<"\n">>]),
      \* fewer bytes than were asked for
      FormatDump(req.addr, req.count - 1, [perLine |-> 8, pad |-> TRUE, eol |-> <<"\n">>]) }

(***************************************************************************)
(* State.                                                                  *)
(***************************************************************************)

VARIABLES
    entry,      \* the entry point that runs
    address,    \* its address argument
    size,       \* its size argument
    profile,    \* "mock": every request is answered whole with the bytes asked
                \* for; "live": the peer and the network may do anything
    pc,         \* where the entry point is
    sock,       \* per session: "none", "open", "closed" (the client's socket)
    link,       \* per session: "up", "closed" (peer closed), "reset"
    wire,       \* per session: characters sent by the peer and not yet received
    ops,        \* per session: the first two socket operations after connect
    cmd,        \* the last request sent
    attempts,   \* how many requests in a row were the last request
    noise,      \* odd replies and short receives so far
    all_bytes,  \* the list the reader appends to (all_bytes, data, values)
    response,   \* the text of the last receive (GDB: of the receives of one read)
    result,     \* what the reader returned
    error,      \* the exception that ended the reader, "none" without one
    buffer,     \* what the caller hands on as image data
    ri,         \* scan_memory_regions: index of the region in hand
    oi,         \* scan_memory_regions: index of the offset of the closer scan
    slot,       \* scan_memory_regions: the variable the read in hand is for
    sample1,    \* scan_memory_regions: the first sample of the region
    active_regions, \* scan_memory_regions: <<base_addr, changes>> of active regions
    file_size,  \* mapped-file scans: len(mm)
    sample_count,   \* find_changing_regions: its argument
    script,     \* mapped-file scans: what the file holds, and how it changes
    sample,     \* find_changing_regions: the outer loop variable
    offset,     \* mapped-file scans: the loop variable of the pass in hand
    change_counts,  \* find_changing_regions: offset -> changes seen
    previous_hashes,    \* find_changing_regions: offset -> last hash
    flagged,    \* find_changing_regions: "Active region" lines printed in the loop
    report,     \* the lines of the final report, in the order printed
    run,        \* find_structures, check_for_video_buffer: 1 on the first run
                \* over the snapshot, 2 on the second
    earlier,    \* what the run before reported
    image,      \* the ELF decoders: the bytes at the address in hand
    found_elfs, \* find_elf_headers: the list it returns
    segments,   \* parse_program_headers: the segment lines printed
    written     \* mapped-file scans: what was written through the mapping, as
                \* <<offset, bytes>>

inputs == <<entry, address, size, profile>>
net == <<sock, link, wire, ops>>
reader == <<cmd, attempts, noise, all_bytes, response, result, error, buffer>>
scan == <<ri, oi, slot, sample1, active_regions>>
temporal == <<file_size, sample_count, script, sample, offset, change_counts,
              previous_hashes, flagged, report>>
\* what the socket readers never touch
spatial == <<run, earlier>>
elf == <<image, found_elfs, segments>>
mapping == <<written>>
analysis == <<temporal, spatial, elf, mapping>>
vars == <<inputs, pc, net, reader, scan, analysis>>

\* an empty dict
Empty == [x \in {} |-> 0]

\* find_structures has not run twice, the ELF decoders have not run
IdleSpatial ==
    /\ run = 1
    /\ earlier = <<>>

IdleElf ==
    /\ image = <<>>
    /\ found_elfs = <<>>
    /\ segments = <<>>

\* the mapped-file scans have not run
IdleAnalysis ==
    /\ IdleSpatial
    /\ written = <<>>
    /\ IdleElf
    /\ file_size = 0
    /\ sample_count = 0
    /\ script = "none"
    /\ sample = 0
    /\ offset = 0
    /\ change_counts = Empty
    /\ previous_hashes = Empty
    /\ flagged = <<>>
    /\ report = <<>>

Sessions == {"mon", "qmp", "gdb"}
NoBuffer == <<-1>>

Init ==
    /\ entry \in TextEntries \cup {"scan"}
    /\ address \in IF entry = "scan" THEN {Regions[1]} ELSE Addresses
    /\ size \in CASE entry = "region" -> {d[1] * d[2] * 3 : d \in Dims}
                  [] entry = "elf" -> ElfSizes
                  [] entry = "video" -> {VideoSize}
                  [] entry = "sample" -> {SampleSize}
                  [] entry = "scan" -> {ScanSampleSize}
    /\ profile \in {"mock", "live"}
    /\ (entry \in TextEntries /\ profile = "live") => size <= MaxLiveSize
    /\ pc = "start"
    /\ sock = [s \in Sessions |-> "none"]
    /\ link = [s \in Sessions |-> "up"]
    /\ wire = [s \in Sessions |-> <<>>]
    /\ ops = [s \in Sessions |-> <<>>]
    /\ cmd = <<>>
    /\ attempts = 0
    /\ noise = 0
    /\ all_bytes = <<>>
    /\ response = <<>>
    /\ result = <<>>
    /\ error = "none"
    /\ buffer = NoBuffer
    /\ ri = 1
    /\ oi = 1
    /\ slot = "sample1"
    /\ sample1 = <<>>
    /\ active_regions = <<>>
    /\ IdleAnalysis

\* s.settimeout(...) is called: a receive with nothing to read raises
HasTimeout(e) == e \in {"region", "video", "sample"}
\* the body is inside try/except that returns []
Catches(e) == e \in {"region", "video", "sample"}
\* the reader loops over chunks
Chunked(e) == e \in {"region", "elf"}

\* the first two operations on a session
Logged(o, op) == IF Len(o) < 2 THEN Append(o, op) ELSE o

\* an exception inside the reader: the except clause returns [] without closing
\* the socket; find_elf_sections.read_memory has no try and the exception leaves it
Throw(e) ==
    /\ pc' = IF Catches(entry) THEN "returned" ELSE "raised"
    /\ result' = <<>>
    /\ error' = e

(***************************************************************************)
(* The text-monitor readers.                                               *)
(***************************************************************************)

\* a reader that goes from connect straight to its first request
ConnectNoGreeting ==
    /\ pc = "start"
    /\ entry \in TextEntries
    /\ sock' = [sock EXCEPT !["mon"] = "open"]
    /\ \/ wire' = [wire EXCEPT !["mon"] = Greeting]
       \/ profile = "live" /\ UNCHANGED wire
    /\ pc' = "loop"
    /\ UNCHANGED <<inputs, analysis, link, ops, reader, scan>>

\* socket(); connect(('localhost', 4444)): the monitor greets, or says nothing
Connect ==
    /\ pc = "start"
    /\ entry \in TextEntries
    /\ sock' = [sock EXCEPT !["mon"] = "open"]
    /\ \/ wire' = [wire EXCEPT !["mon"] = Greeting]
       \/ profile = "live" /\ UNCHANGED wire
    /\ pc' = "connected"
    /\ UNCHANGED <<inputs, analysis, link, ops, reader, scan>>

\* connect raises (nobody listens)
ConnectRefused ==
    /\ pc = "start"
    /\ entry \in TextEntries
    /\ profile = "live"
    /\ Throw("ConnectionRefusedError")
    /\ UNCHANGED <<inputs, analysis, net, cmd, attempts, noise, all_bytes, response, buffer, scan>>

\* s.recv(1024)  # Initial prompt: read and dropped
RecvGreeting ==
    /\ pc = "connected"
    /\ entry \in TextEntries
    /\ IF wire["mon"] # <<>>
       THEN /\ wire' = [wire EXCEPT !["mon"] =
                           SubSeq(@, Min(Len(@), GreetMax) + 1, Len(@))]
            /\ ops' = [ops EXCEPT !["mon"] = Logged(@, "recv")]
            /\ pc' = "loop"
            /\ UNCHANGED <<result, error>>
       ELSE IF HasTimeout(entry)
            THEN Throw("timeout") /\ UNCHANGED <<wire, ops>>
            ELSE pc' = "blocked" /\ UNCHANGED <<wire, ops, result, error>>
    /\ UNCHANGED <<inputs, analysis, sock, link, cmd, attempts, noise, all_bytes, response,
                   buffer, scan>>

\* chunk_size = min(256, size - bytes_read) in the chunked readers, the whole
\* size in the others
RequestCount ==
    IF Chunked(entry) THEN Min(ChunkCap, size - Len(all_bytes)) ELSE size

\* a reader that asks for every chunk at the start address
RequestAddrNoOffset == address

\* address + bytes_read
RequestAddr == IF Chunked(entry) THEN address + Len(all_bytes) ELSE address

\* s.send(cmd.encode()): the top of the while loop, or the one request of the
\* readers that do not loop.  A send on a connection the peer has reset raises.
SendCmd ==
    /\ pc = "loop"
    /\ entry \in TextEntries
    /\ Chunked(entry) => Len(all_bytes) < size
    /\ IF link["mon"] = "reset"
       THEN Throw("BrokenPipeError") /\ UNCHANGED <<link, ops, cmd, attempts>>
       ELSE /\ cmd' = FormatCmd(RequestCount, RequestAddr)
            /\ attempts' = IF cmd' = cmd THEN Min(attempts + 1, MaxAttempts) ELSE 1
            /\ link' = [link EXCEPT !["mon"] = IF @ = "closed" THEN "reset" ELSE @]
            /\ ops' = [ops EXCEPT !["mon"] = Logged(@, "send")]
            /\ pc' = "sent"
            /\ UNCHANGED <<result, error>>
    /\ UNCHANGED <<inputs, analysis, sock, wire, noise, all_bytes, response, buffer, scan>>

\* the monitor answers the request with the bytes asked for
PeerAnswer ==
    /\ pc = "sent"
    /\ link["mon"] = "up"
    /\ \E lay \in Layouts :
         wire' = [wire EXCEPT !["mon"] =
                     @ \o LET req == ParseCmd(cmd)
                          IN FormatDump(req.addr, req.count, lay)]
    /\ pc' = "await"
    /\ UNCHANGED <<inputs, analysis, sock, link, ops, reader, scan>>

\* the monitor answers with text that holds no byte
PeerGarbage ==
    /\ pc = "sent"
    /\ profile = "live"
    /\ link["mon"] = "up"
    /\ wire' = [wire EXCEPT !["mon"] = @ \o GarbageText]
    /\ pc' = "await"
    /\ UNCHANGED <<inputs, analysis, sock, link, ops, reader, scan>>

\* the monitor answers with bytes, but not the dump asked for
PeerOdd ==
    /\ pc = "sent"
    /\ profile = "live"
    /\ link["mon"] = "up"
    /\ noise < MaxNoise
    /\ \E t \in OddReplies(ParseCmd(cmd)) :
         wire' = [wire EXCEPT !["mon"] = @ \o t]
    /\ noise' = noise + 1
    /\ pc' = "await"
    /\ UNCHANGED <<inputs, analysis, sock, link, ops, cmd, attempts, all_bytes, response,
                   result, error, buffer, scan>>

\* the monitor sends nothing (or the request went to a closed connection)
PeerSilent ==
    /\ pc = "sent"
    /\ profile = "live" \/ link["mon"] # "up"
    /\ pc' = "await"
    /\ UNCHANGED <<inputs, analysis, net, reader, scan>>

\* the monitor closes the connection instead of answering
PeerClose ==
    /\ pc = "sent"
    /\ profile = "live"
    /\ link["mon"] = "up"
    /\ link' = [link EXCEPT !["mon"] = "closed"]
    /\ pc' = "await"
    /\ UNCHANGED <<inputs, analysis, sock, wire, ops, reader, scan>>

\* what the reader does with the text of one receive
Parsed(data) ==
    CASE entry = "region" -> ParseRegion(data, all_bytes, size)
      [] entry = "elf" -> ParseElf(data, all_bytes, size)
      [] entry = "video" -> ParseVideo(data)
      [] entry = "sample" -> ParseSample(data)

\* response = s.recv(8192).decode(...) with n characters received, and the
\* parse loop after it.  The readers that do not loop close the socket and
\* return.
Receive(n) ==
    /\ response' = SubSeq(wire["mon"], 1, n)
    /\ all_bytes' = Parsed(SubSeq(wire["mon"], 1, n))
    /\ wire' = [wire EXCEPT !["mon"] = SubSeq(@, n + 1, Len(@))]
    /\ IF Chunked(entry)
       THEN pc' = "loop" /\ UNCHANGED <<sock, result>>
       ELSE /\ sock' = [sock EXCEPT !["mon"] = "closed"]
            /\ result' = all_bytes'
            /\ pc' = "returned"
    /\ UNCHANGED error

\* The receive returns what has arrived, at most 8192 characters; on a live
\* network that may be a part of what the peer sent.  With nothing to read it
\* returns '' once the peer has closed, raises socket.timeout when a timeout
\* is set, and blocks otherwise.
RecvReply ==
    /\ pc = "await"
    /\ IF wire["mon"] # <<>>
       THEN \/ Receive(Min(Len(wire["mon"]), RecvMax)) /\ UNCHANGED noise
            \/ /\ profile = "live"
               /\ noise < MaxNoise
               /\ Len(wire["mon"]) >= 2
               /\ Receive(Len(wire["mon"]) \div 2)
               /\ noise' = noise + 1
       ELSE IF link["mon"] # "up"
            THEN Receive(0) /\ UNCHANGED noise
            ELSE IF HasTimeout(entry)
                 THEN /\ Throw("timeout")
                      /\ UNCHANGED <<sock, wire, noise, all_bytes, response>>
                 ELSE /\ pc' = "blocked"
                      /\ UNCHANGED <<sock, wire, noise, all_bytes, response,
                                     result, error>>
    /\ UNCHANGED <<inputs, analysis, link, ops, cmd, attempts, buffer, scan>>

\* the while condition is false: s.close(); return all_bytes[:size] / bytes(data)
Finish ==
    /\ pc = "loop"
    /\ Chunked(entry)
    /\ Len(all_bytes) >= size
    /\ sock' = [sock EXCEPT !["mon"] = "closed"]
    /\ result' = IF entry = "region" THEN SubSeq(all_bytes, 1, size) ELSE all_bytes
    /\ pc' = "returned"
    /\ UNCHANGED <<inputs, analysis, link, wire, ops, cmd, attempts, noise, all_bytes,
                   response, error, buffer, scan>>

(***************************************************************************)
(* The callers that turn a read into image data.                           *)
(***************************************************************************)

Zeros(n) == [i \in 1..n |-> 0]

\* display_memory_as_image: data = read_memory_region(address, size), padded
\* with zeros when short, then handed to np.array
DisplayImage ==
    /\ pc = "returned"
    /\ entry = "region"
    /\ buffer' = IF Len(result) < size
                 THEN result \o Zeros(size - Len(result))
                 ELSE result
    /\ pc' = "consumed"
    /\ UNCHANGED <<inputs, analysis, net, cmd, attempts, noise, all_bytes, response, result,
                   error, scan>>

\* save_sample(address, data)
SaveSample(data) ==
    LET cut == SubSeq(data, 1, Min(Len(data), SampleImage))
    IN IF Len(cut) < SampleImage
       THEN cut \o Zeros(SampleImage - Len(cut))
       ELSE cut

\* scan_memory_ranges: the test that sends a sample to save_sample
Interesting(data) ==
    LET non_zero == Cardinality({i \in 1..Len(data) : data[i] # 0})
        yuv == Cardinality({i \in 1..Len(data) : 100 < data[i] /\ data[i] < 156})
        unique == Cardinality({data[i] : i \in 1..Len(data)})
    IN /\ Len(data) > 256
       /\ non_zero > 100
       /\ (yuv * 10 > 3 * Len(data) \/ unique > 100)

\* scan_memory_ranges: yuv_like > 0.3, yuv_like being the share of the bytes
\* with 100 < b < 156
ScanYuvLike(data) ==
    Cardinality({i \in 1..Len(data) : 100 < data[i] /\ data[i] < 156}) * 10 > 3 * Len(data)

\* one address of scan_memory_ranges
ScanSample ==
    /\ pc = "returned"
    /\ entry = "sample"
    /\ buffer' = IF Interesting(result) THEN SaveSample(result) ELSE buffer
    /\ pc' = "consumed"
    /\ UNCHANGED <<inputs, analysis, net, cmd, attempts, noise, all_bytes, response, result,
                   error, scan>>

(***************************************************************************)
(* scan_memory_regions.py: the GDB remote protocol and the QMP session.    *)
(***************************************************************************)

\* ord(c) of the characters a packet is made of
Ord(c) ==
    CASE c = "#" -> 35 [] c = "$" -> 36 [] c = "+" -> 43 [] c = "," -> 44
      [] c = "E" -> 69 [] c = "m" -> 109
      [] DigitVal(c) \in 0..9 -> 48 + DigitVal(c)
      [] DigitVal(c) \in 10..15 -> 87 + DigitVal(c)

RECURSIVE SumOrd(_)
SumOrd(t) == IF t = <<>> THEN 0 ELSE Ord(Head(t)) + SumOrd(Tail(t))

\* a checksum that is the plain sum
ChecksumNoMask(data) == SumOrd(data)

\* sum(ord(c) for c in data) & 0xff
calculate_checksum(data) == SumOrd(data) % 256

\* f"{n:02x}": at least two digits, more when n does not fit in two
Hex2(n) == IF n < 16 THEN <<"0", HexChars[n + 1]>> ELSE FormatHex(n)

\* cmd = f"m{address:x},{size:x}"; packet = f"${cmd}#{calculate_checksum(cmd):02x}"
FormatGdb(addr, n) ==
    LET c == <<"m">> \o FormatHex(addr) \o <<",">> \o FormatHex(n)
    IN <<"$">> \o c \o <<"#">> \o Hex2(calculate_checksum(c))

\* the stub's reading of a request packet  $m<addr>,<length>#cc
ParseGdb(packet) ==
    LET comma == FindChar(packet, ",")
        hash == FindChar(packet, "#")
    IN [addr |-> DigitsVal(SubSeq(packet, 3, comma - 1)),
        count |-> DigitsVal(SubSeq(packet, comma + 1, hash - 1))]

RECURSIVE HexBytes(_)
HexBytes(bs) == IF bs = <<>> THEN <<>> ELSE Hex2(Head(bs)) \o HexBytes(Tail(bs))

\* the stub's reply packet around a payload:  + $ payload # checksum
GdbReply(payload) ==
    <<"+", "$">> \o payload \o <<"#">> \o Hex2(calculate_checksum(payload))

\* the memory the stub answers with: what Mem holds, the same a moment later
\* when the guest has written to it, or zeros.  A stub may return fewer bytes
\* than were asked for; the model's stub returns at most MaxGdbBytes, and
\* half of that when the read stops short.
GdbBytes(kind, req) ==
    [i \in 1..(IF kind = "short" THEN Min(req.count, MaxGdbBytes) \div 2
                                ELSE Min(req.count, MaxGdbBytes)) |->
        CASE kind \in {"mem", "short"} -> Mem(req.addr + i - 1)
          [] kind = "changed" -> (Mem(req.addr + i - 1) + 1) % 256
          [] kind = "zeros" -> 0]

\* bytes.fromhex(text): pairs of hexadecimal digits; <<-1>> stands for the
\* ValueError of an odd length or of a character that is no digit
RECURSIVE PairsVal(_)
PairsVal(h) ==
    IF h = <<>> THEN <<>>
    ELSE <<DigitVal(h[1]) * 16 + DigitVal(h[2])>> \o PairsVal(SubSeq(h, 3, Len(h)))

FromHex(h) ==
    IF Len(h) % 2 = 0 /\ \A i \in 1..Len(h) : DigitVal(h[i]) >= 0
    THEN [kind |-> "bytes", val |-> PairsVal(h)]
    ELSE [kind |-> "raise", val |-> <<>>]

\* the end of read_memory_gdb: what it makes of the response it collected
GdbParse(resp) ==
    IF Len(resp) >= 2 /\ resp[1] = "+" /\ resp[2] = "$"
    THEN LET hex_data == SplitOn(SubSeq(resp, 3, Len(resp)), "#")[1]
         IN IF hex_data # <<>> /\ hex_data # <<"E">>
            THEN FromHex(hex_data)
            ELSE [kind |-> "none", val |-> <<>>]
    ELSE [kind |-> "none", val |-> <<>>]

\* range(0, 0x100000, 0x10000)
Offset(i) == (i - 1) * 65536

QmpGreeting == <<"{", "\"", "Q", "M", "P", "\"", ":", " ", "{", "}", "}", "\r", "\n">>
QmpCapabilities == <<"{", "\"", "e", "x", "e", "c", "u", "t", "e", "\"", ":", " ", "\"", "q", "m", "p", "_", "c", "a", "p", "a", "b", "i", "l", "i", "t", "i", "e", "s", "\"", "}", "\n">>
QmpReturn == <<"{", "\"", "r", "e", "t", "u", "r", "n", "\"", ":", " ", "{", "}", "}", "\r", "\n">>
QmpQuery == <<"{", "\"", "e", "x", "e", "c", "u", "t", "e", "\"", ":", " ", "\"", "h", "u", "m", "a", "n", "-", "m", "o", "n", "i", "t", "o", "r", "-", "c", "o", "m", "m", "a", "n", "d", "\"", "}", "\n">>
QmpMtree == <<"{", "\"", "r", "e", "t", "u", "r", "n", "\"", ":", " ", "\"", "r", "a", "m", "\"", "}", "\r", "\n">>
QmpBroken == <<"{", "\"", "r", "e", "t", "u", "r", "n", "\"", ":", " ", "\r", "\n">>
GdbGreeting == <<"+">>

\* json.loads(text) succeeds: of the texts the model's peer sends, those that
\* are a complete object
IsJson(text) ==
    LET t == SelectSeq(text, LAMBDA c : ~IsSpace(c))
    IN Len(t) >= 2 /\ t[1] = "{" /\ t[Len(t)] = "}"

\* a session's connect: the peer greets, or (live) says nothing
Opened(s, greeting) ==
    /\ sock' = [sock EXCEPT ![s] = "open"]
    /\ \/ wire' = [wire EXCEPT ![s] = greeting]
       \/ profile = "live" /\ UNCHANGED wire

\* recv(n) whose result is dropped
Dropped(s, n) ==
    /\ wire[s] # <<>>
    /\ wire' = [wire EXCEPT ![s] = SubSeq(@, Min(Len(@), n) + 1, Len(@))]
    /\ ops' = [ops EXCEPT ![s] = Logged(@, "recv")]

\* qmp = socket(); qmp.connect(('localhost', 4445))
QmpConnect ==
    /\ pc = "start"
    /\ entry = "scan"
    /\ Opened("qmp", QmpGreeting)
    /\ pc' = "q_greet"
    /\ UNCHANGED <<inputs, analysis, link, ops, reader, scan>>

\* a connect of scan_memory_regions raises: nothing catches it
ScanRefused ==
    /\ pc \in {"start", "g_connect"}
    /\ entry = "scan"
    /\ profile = "live"
    /\ pc' = "raised"
    /\ error' = "ConnectionRefusedError"
    /\ UNCHANGED <<inputs, analysis, net, cmd, attempts, noise, all_bytes, response, result,
                   buffer, scan>>

\* greeting = qmp.recv(4096); no timeout is set, so it waits for ever for a
\* peer that sends nothing
QmpGreet ==
    /\ pc = "q_greet"
    /\ IF wire["qmp"] # <<>>
       THEN Dropped("qmp", ScanRecvMax) /\ pc' = "q_caps"
       ELSE pc' = "blocked" /\ UNCHANGED <<wire, ops>>
    /\ UNCHANGED <<inputs, analysis, sock, link, reader, scan>>

\* qmp.send(b'{"execute": "qmp_capabilities"}\n'), and the peer's answer
QmpCaps ==
    /\ pc = "q_caps"
    /\ cmd' = QmpCapabilities
    /\ ops' = [ops EXCEPT !["qmp"] = Logged(@, "send")]
    /\ \/ wire' = [wire EXCEPT !["qmp"] = @ \o QmpReturn]
       \/ profile = "live" /\ UNCHANGED wire
    /\ pc' = "q_capsr"
    /\ UNCHANGED <<inputs, analysis, sock, link, attempts, noise, all_bytes, response, result,
                   error, buffer, scan>>

\* qmp.recv(4096)
QmpCapsReply ==
    /\ pc = "q_capsr"
    /\ IF wire["qmp"] # <<>>
       THEN Dropped("qmp", ScanRecvMax) /\ pc' = "g_connect"
       ELSE pc' = "blocked" /\ UNCHANGED <<wire, ops>>
    /\ UNCHANGED <<inputs, analysis, sock, link, reader, scan>>

\* gdb = socket(); gdb.connect(('localhost', 1234))
GdbConnect ==
    /\ pc = "g_connect"
    /\ Opened("gdb", GdbGreeting)
    /\ pc' = "g_greet"
    /\ UNCHANGED <<inputs, analysis, link, ops, reader, scan>>

\* gdb.recv(1024)  # Greeting
GdbGreet ==
    /\ pc = "g_greet"
    /\ IF wire["gdb"] # <<>>
       THEN Dropped("gdb", GreetMax) /\ pc' = "g_send"
       ELSE pc' = "blocked" /\ UNCHANGED <<wire, ops>>
    /\ UNCHANGED <<inputs, analysis, sock, link, reader, scan>>

\* the arguments of the read in hand: a sample of the region, or a read of the
\* closer scan
GdbAddr ==
    IF slot \in {"sample1", "sample2"} THEN Regions[ri] ELSE Regions[ri] + Offset(oi)

GdbSize == IF slot \in {"sample1", "sample2"} THEN ScanSampleSize ELSE CloserSize

\* read_memory_gdb: gdb_sock.send(packet.encode()); response = b""
GdbSend ==
    /\ pc = "g_send"
    /\ cmd' = FormatGdb(GdbAddr, GdbSize)
    /\ response' = <<>>
    /\ ops' = [ops EXCEPT !["gdb"] = Logged(@, "send")]
    /\ pc' = "g_sent"
    /\ UNCHANGED <<inputs, analysis, sock, link, wire, attempts, noise, all_bytes, result,
                   error, buffer, scan>>

\* the stub answers with memory
GdbPeerAnswer ==
    /\ pc = "g_sent"
    /\ \E kind \in {"mem", "changed", "zeros", "short"} :
         wire' = [wire EXCEPT !["gdb"] =
                     @ \o GdbReply(HexBytes(GdbBytes(kind, ParseGdb(cmd))))]
    /\ pc' = "g_recv"
    /\ UNCHANGED <<inputs, analysis, sock, link, ops, reader, scan>>

\* the stub answers with an error code
GdbPeerError ==
    /\ pc = "g_sent"
    /\ profile = "live"
    /\ wire' = [wire EXCEPT !["gdb"] = @ \o GdbReply(<<"E", "0", "1">>)]
    /\ pc' = "g_recv"
    /\ UNCHANGED <<inputs, analysis, sock, link, ops, reader, scan>>

\* the stub acknowledges and never sends the packet
GdbPeerUnterminated ==
    /\ pc = "g_sent"
    /\ profile = "live"
    /\ wire' = [wire EXCEPT !["gdb"] = @ \o <<"+">>]
    /\ pc' = "g_recv"
    /\ UNCHANGED <<inputs, analysis, sock, link, ops, reader, scan>>

\* the stub closes the connection
GdbPeerClose ==
    /\ pc = "g_sent"
    /\ profile = "live"
    /\ link' = [link EXCEPT !["gdb"] = "closed"]
    /\ pc' = "g_recv"
    /\ UNCHANGED <<inputs, analysis, sock, wire, ops, reader, scan>>

\* the for loop of scan_memory_regions takes the next region, or ends
NextRegion ==
    /\ IF ri < MaxRegions
       THEN ri' = ri + 1 /\ pc' = "g_send"
       ELSE ri' = ri /\ pc' = "q_send"
    /\ slot' = "sample1"
    /\ oi' = 1

\* sum(1 for a, b in zip(sample1, sample2) if a != b)
Changes(a, b) == Cardinality({i \in 1..Min(Len(a), Len(b)) : a[i] # b[i]})

\* sum(1 for b in sample1 if b != 0)
NonZero(a) == Cardinality({i \in 1..Len(a) : a[i] # 0})

\* what the loop body does with the value v that read_memory_gdb ended in
Deliver(v) ==
    CASE v.kind = "raise" ->
           \* except Exception: pass
           NextRegion /\ UNCHANGED <<sample1, active_regions>>
      [] v.kind # "raise" /\ slot = "sample1" ->
           /\ sample1' = v.val
           /\ IF v.val = <<>>
              THEN NextRegion
              ELSE slot' = "sample2" /\ pc' = "g_send" /\ UNCHANGED <<ri, oi>>
           /\ UNCHANGED active_regions
      [] v.kind # "raise" /\ slot = "sample2" ->
           IF v.val = <<>>
           THEN NextRegion /\ UNCHANGED <<sample1, active_regions>>
           ELSE LET changes == Changes(sample1, v.val)
                    non_zero == NonZero(sample1)
                IN /\ active_regions' =
                        IF non_zero > 0 /\ changes > 0
                        THEN Append(active_regions, <<Regions[ri], changes>>)
                        ELSE active_regions
                   /\ IF non_zero > 0 /\ changes > 10
                      THEN slot' = "s1" /\ oi' = 1 /\ pc' = "g_send" /\ ri' = ri
                      ELSE NextRegion
                   /\ UNCHANGED sample1
      [] v.kind # "raise" /\ slot = "s1" ->
           /\ slot' = "s2"
           /\ pc' = "g_send"
           /\ UNCHANGED <<ri, oi, sample1, active_regions>>
      [] v.kind # "raise" /\ slot = "s2" ->
           \* s1 and s2 are compared and the difference is printed
           /\ IF oi < MaxOffsets
              THEN slot' = "s1" /\ oi' = oi + 1 /\ pc' = "g_send" /\ ri' = ri
              ELSE NextRegion
           /\ UNCHANGED <<sample1, active_regions>>

\* one receive of n characters in the loop of read_memory_gdb
GdbTake(n) ==
    LET data == SubSeq(wire["gdb"], 1, n) IN
    /\ wire' = [wire EXCEPT !["gdb"] = SubSeq(@, n + 1, Len(@))]
    /\ response' = response \o data
    /\ IF FindChar(data, "#") > 0
       THEN Deliver(GdbParse(response'))
       ELSE pc' = "g_recv" /\ UNCHANGED scan

\* while True: data = gdb_sock.recv(4096); response += data; if b'#' in data:
\* break.  No timeout is set: with nothing to read the receive waits, and once
\* the peer has closed it returns b'' every time, which the loop never leaves.
\* On a live network a receive may end with the '#' while the checksum digits
\* are still on their way.
GdbRecv ==
    /\ pc = "g_recv"
    /\ IF wire["gdb"] # <<>>
       THEN \/ GdbTake(Min(Len(wire["gdb"]), ScanRecvMax)) /\ UNCHANGED noise
            \/ /\ profile = "live"
               /\ noise < MaxNoise
               /\ FindChar(wire["gdb"], "#") \in 1..(Len(wire["gdb"]) - 1)
               /\ GdbTake(FindChar(wire["gdb"], "#"))
               /\ noise' = noise + 1
       ELSE /\ pc' = IF link["gdb"] = "up" THEN "blocked" ELSE "spinning"
            /\ UNCHANGED <<wire, response, noise, scan>>
    /\ UNCHANGED <<inputs, analysis, sock, link, ops, cmd, attempts, all_bytes, result, error,
                   buffer>>

\* send_qmp_command(qmp, cmd): sock.send(...); response = b""
QmpSend ==
    /\ pc = "q_send"
    /\ cmd' = QmpQuery
    /\ response' = <<>>
    /\ pc' = "q_sent"
    /\ UNCHANGED <<inputs, analysis, net, attempts, noise, all_bytes, result, error, buffer,
                   scan>>

\* the QMP peer answers, answers with half an object, or closes
QmpPeer ==
    /\ pc = "q_sent"
    /\ \/ wire' = [wire EXCEPT !["qmp"] = @ \o QmpMtree] /\ UNCHANGED link
       \/ /\ profile = "live"
          /\ wire' = [wire EXCEPT !["qmp"] = @ \o QmpBroken]
          /\ UNCHANGED link
       \/ /\ profile = "live"
          /\ link' = [link EXCEPT !["qmp"] = "closed"]
          /\ UNCHANGED wire
       \/ profile = "live" /\ UNCHANGED <<wire, link>>
    /\ pc' = "q_recv"
    /\ UNCHANGED <<inputs, analysis, sock, ops, reader, scan>>

\* while b'\n' not in response: response += sock.recv(4096); then
\* json.loads of the first line, whose exception nothing catches
QmpRecv ==
    /\ pc = "q_recv"
    /\ IF wire["qmp"] # <<>>
       THEN LET n == Min(Len(wire["qmp"]), ScanRecvMax)
                resp == response \o SubSeq(wire["qmp"], 1, n)
            IN /\ wire' = [wire EXCEPT !["qmp"] = SubSeq(@, n + 1, Len(@))]
               /\ response' = resp
               /\ IF FindChar(resp, "\n") = 0
                  THEN pc' = "q_recv" /\ UNCHANGED error
                  ELSE IF IsJson(SplitOn(resp, "\n")[1])
                       THEN pc' = "closing" /\ UNCHANGED error
                       ELSE pc' = "raised" /\ error' = "JSONDecodeError"
       ELSE /\ pc' = IF link["qmp"] = "up" THEN "blocked" ELSE "spinning"
            /\ UNCHANGED <<wire, response, error>>
    /\ UNCHANGED <<inputs, analysis, sock, link, ops, cmd, attempts, noise, all_bytes, result,
                   buffer, scan>>

\* qmp.close(); gdb.close()
CloseAll ==
    /\ pc = "closing"
    /\ sock' = [sock EXCEPT !["qmp"] = "closed", !["gdb"] = "closed"]
    /\ pc' = "returned"
    /\ UNCHANGED <<inputs, analysis, link, wire, ops, reader, scan>>

Next ==
    \/ Connect
    \/ ConnectRefused
    \/ RecvGreeting
    \/ SendCmd
    \/ PeerAnswer
    \/ PeerGarbage
    \/ PeerOdd
    \/ PeerSilent
    \/ PeerClose
    \/ RecvReply
    \/ Finish
    \/ DisplayImage
    \/ ScanSample
    \/ QmpConnect
    \/ ScanRefused
    \/ QmpGreet
    \/ QmpCaps
    \/ QmpCapsReply
    \/ GdbConnect
    \/ GdbGreet
    \/ GdbSend
    \/ GdbPeerAnswer
    \/ GdbPeerError
    \/ GdbPeerUnterminated
    \/ GdbPeerClose
    \/ GdbRecv
    \/ QmpSend
    \/ QmpPeer
    \/ QmpRecv
    \/ CloseAll

Spec == Init /\ [][Next]_vars

(***************************************************************************)
(* find_active_framebuffer.py: find_changing_regions samples a mapped file *)
(* sample_count times and counts, per offset, how often the hash of the    *)
(* first 4 KB differs from the hash of the sample before.                  *)
(***************************************************************************)

\* region_size = 1920*1080*4
RegionSize == 8294400
\* stride = 16 * 1024 * 1024
Stride == 16777216
\* change_counts[offset] >= 3 in the loop
FlagChanges == 3
\* [:10] of the final report
TopActive == 10
\* count >= 2 in the final report
MinChanges == 2

\* sizes of the mapped file: empty, smaller than one region, and with 1, 2
\* and 12 offsets in range(0, file_size - region_size, stride)
FileSizes ==
    {0, 4096, RegionSize + 1, RegionSize + Stride + 1, RegionSize + 11 * Stride + 1}
SampleCounts == {1, 5, 10}
\* how the file's content changes while it is sampled
Scripts == {"static", "scripted", "busy", "zeros", "once", "mixed"}

\* no socket is open and nothing was read
IdleReaders ==
    /\ sock = [s \in Sessions |-> "none"]
    /\ link = [s \in Sessions |-> "up"]
    /\ wire = [s \in Sessions |-> <<>>]
    /\ ops = [s \in Sessions |-> <<>>]
    /\ cmd = <<>>
    /\ attempts = 0
    /\ noise = 0
    /\ all_bytes = <<>>
    /\ response = <<>>
    /\ result = <<>>
    /\ error = "none"
    /\ buffer = NoBuffer
    /\ ri = 1
    /\ oi = 1
    /\ slot = "sample1"
    /\ sample1 = <<>>

\* the socket readers are not in use
IdleSession ==
    /\ address = 0
    /\ size = 0
    /\ profile = "mock"
    /\ IdleReaders

\* the socket readers are not in use and no region is collected
IdleSockets ==
    /\ IdleSession
    /\ active_regions = <<>>

\* the version of the 4 KB at offset o when sample number k (from 0) is taken:
\* "scripted" is the file whose first region changes on the second and on the
\* fourth sample and whose other regions never change
Version(scr, o, k) ==
    CASE scr = "static" -> 1
      [] scr = "scripted" ->
           IF o # 0 THEN 1 ELSE IF k < 1 THEN 1 ELSE IF k < 3 THEN 2 ELSE 3
      [] scr \in {"busy", "zeros"} -> k + 1
      [] scr = "once" -> IF k = 0 THEN 1 ELSE 2
      [] scr = "mixed" -> IF (o \div Stride) % 2 = 0 THEN k + 1 ELSE IF k = 0 THEN 1 ELSE 2

\* mm.read(4096) at offset o: the first four bytes, and the version of the rest
SampleData(scr, o, k) ==
    LET v == Version(scr, o, k)
        b == IF scr = "zeros" THEN 0 ELSE v
    IN <<b, b, b, b, v>>

\* hashlib.md5(sample_data).digest(): equal data, equal digest; the model has
\* no two data with one digest
Md5(data) == <<"md5", data>>

\* list(range(0, stop, step))
RangeSeq(stop, step) ==
    IF stop <= 0 THEN <<>>
    ELSE [i \in 1..(((stop - 1) \div step) + 1) |-> (i - 1) * step]

\* range(0, file_size - region_size, stride)
TemporalOffsets == RangeSeq(file_size - RegionSize, Stride)

\* a > b for tuples of two integers
PairGreater(a, b) == a[1] > b[1] \/ (a[1] = b[1] /\ a[2] > b[2])

\* sorted(pairs, reverse=True) for pairs no two of which are equal
RECURSIVE SortedDesc(_)
SortedDesc(S) ==
    IF S = {} THEN <<>>
    ELSE LET m == CHOOSE x \in S : \A y \in S \ {x} : PairGreater(x, y)
         IN <<m>> \o SortedDesc(S \ {m})

\* seq[:n]
Take(seq, n) == SubSeq(seq, 1, Min(n, Len(seq)))

TemporalInit ==
    /\ entry = "temporal"
    /\ pc = "start"
    /\ IdleSockets
    /\ file_size \in FileSizes
    /\ sample_count \in SampleCounts
    /\ script \in Scripts
    /\ sample = 0
    /\ offset = 0
    /\ change_counts = Empty
    /\ previous_hashes = Empty
    /\ flagged = <<>>
    /\ report = <<>>
    /\ IdleSpatial
    /\ written = <<>>
    /\ IdleElf

\* open(filepath, "r+b"); mmap.mmap(f.fileno(), 0, prot=PROT_READ).  A missing
\* file ends the program (sys.exit(1)); an empty one makes mmap raise ValueError,
\* which nothing catches.
TemporalOpen ==
    /\ pc = "start"
    /\ entry = "temporal"
    /\ \/ pc' = "exited"
       \/ /\ file_size = 0
          /\ pc' = "raised"
       \/ /\ file_size > 0
          /\ pc' = IF TemporalOffsets = <<>> THEN "reporting" ELSE "sampling"
    /\ UNCHANGED <<inputs, net, reader, scan, analysis>>

\* the body of the two loops for one (sample, offset), and the step to the next
TemporalSample ==
    /\ pc = "sampling"
    /\ entry = "temporal"
    /\ LET sample_data == SampleData(script, offset, sample)
           current_hash == Md5(sample_data)
           changed == /\ offset \in DOMAIN previous_hashes
                      /\ current_hash # previous_hashes[offset]
           count == IF offset \in DOMAIN change_counts
                    THEN change_counts[offset] + 1
                    ELSE 1
       IN /\ change_counts' =
               IF changed
               THEN [o \in DOMAIN change_counts \cup {offset} |->
                        IF o = offset THEN count ELSE change_counts[o]]
               ELSE change_counts
          /\ flagged' =
               IF /\ changed
                  /\ SubSeq(sample_data, 1, 4) # <<0, 0, 0, 0>>
                  /\ count >= FlagChanges
               THEN Append(flagged, <<offset, count>>)
               ELSE flagged
          /\ previous_hashes' =
               [o \in DOMAIN previous_hashes \cup {offset} |->
                   IF o = offset THEN current_hash ELSE previous_hashes[o]]
    /\ IF offset + Stride < file_size - RegionSize
       THEN offset' = offset + Stride /\ sample' = sample /\ pc' = "sampling"
       ELSE /\ offset' = 0
            /\ sample' = sample + 1
            /\ pc' = IF sample + 1 < sample_count THEN "sampling" ELSE "reporting"
    /\ UNCHANGED <<inputs, net, reader, scan, file_size, sample_count, script, report,
                   spatial, elf, mapping>>

\* active = sorted([(count, offset) ...], reverse=True)[:10]; the lines with
\* count >= 2 are printed; mm.close()
TemporalReport ==
    /\ pc = "reporting"
    /\ entry = "temporal"
    /\ LET active == Take(SortedDesc({<<change_counts[o], o>> :
                                         o \in DOMAIN change_counts}), TopActive)
       IN report' = SelectSeq(active, LAMBDA t : t[1] >= MinChanges)
    /\ pc' = "returned"
    /\ UNCHANGED <<inputs, net, reader, scan, file_size, sample_count, script, sample,
                   offset, change_counts, previous_hashes, flagged, spatial, elf, mapping>>

TemporalNext ==
    \/ TemporalOpen
    \/ TemporalSample
    \/ TemporalReport

TemporalSpec == TemporalInit /\ [][TemporalNext]_vars

(***************************************************************************)
(* find_memory_structures.py: find_structures looks at the 4 KB at every   *)
(* 1 MB (pointers), 4 MB (strings) and 2 MB (page tables) of a mapped      *)
(* file, and then searches the file for the ELF magic.                     *)
(***************************************************************************)

MB == 1048576
\* mm.read(4096)
ChunkSize == 4096
\* min(file_size, 256*1024*1024) of the first three passes
PassLimit == 268435456
\* min(file_size, 512*1024*1024) of the ELF pass
ElfPassLimit == 536870912
\* the steps of the three passes
PointerStep == MB
StringStep == 4 * MB
TableStep == 2 * MB
\* ptr_count > 20, pte_count > 100, printable > len(chunk) * 0.7
PtrThreshold == 20
PteThreshold == 100
PrintableTenths == 7
\* mm.read(64) of the ELF pass, len(header) >= 20
HeaderRead == 64
HeaderMin == 20

\* b'\x7fELF'
elf_magic == <<127, 69, 76, 70>>

\* struct.unpack('<Q' | '<I' | '<H', b)[0]: the value, as its bytes with the
\* most significant first (a 64-bit value does not fit a TLC integer)
Unpack(b) == [i \in 1..Len(b) |-> b[Len(b) + 1 - i]]

\* a <= b for two values of one width
RECURSIVE ValLe(_, _)
ValLe(a, b) ==
    IF a = <<>> THEN TRUE
    ELSE IF a[1] # b[1] THEN a[1] < b[1]
    ELSE ValLe(Tail(a), Tail(b))

\* a & b for two bytes
RECURSIVE BitAnd(_, _)
BitAnd(a, b) ==
    IF a = 0 \/ b = 0 THEN 0
    ELSE (a % 2) * (b % 2) + 2 * BitAnd(a \div 2, b \div 2)

\* a & m for two values of one width
ValAnd(a, m) == [i \in 1..Len(a) |-> BitAnd(a[i], m[i])]

\* 0xFFFF000000000000, 0xFFFFFFFFFFFFFFFF, 0x0000000000400000, 0x0000800000000000
KernelLow == <<255, 255, 0, 0, 0, 0, 0, 0>>
KernelHigh == <<255, 255, 255, 255, 255, 255, 255, 255>>
UserLow == <<0, 0, 0, 0, 0, 64, 0, 0>>
UserHigh == <<0, 0, 128, 0, 0, 0, 0, 0>>
\* 0x1, 0xFFFFF00000000000, 0
PresentBit == <<0, 0, 0, 0, 0, 0, 0, 1>>
PteMask == <<255, 255, 240, 0, 0, 0, 0, 0>>
Zero64 == <<0, 0, 0, 0, 0, 0, 0, 0>>

\* the test of lines 33-34
IsPointer(val) ==
    \/ ValLe(KernelLow, val) /\ ValLe(val, KernelHigh)
    \/ ValLe(UserLow, val) /\ ValLe(val, UserHigh)

\* the test of line 75
IsPte(val) ==
    /\ ValAnd(val, PresentBit) # Zero64
    /\ ValAnd(val, PteMask) = Zero64

\* the i of range(0, len(chunk)-8, 8), divided by 8
WordIndexes(chunk) ==
    IF Len(chunk) - 8 <= 0 THEN {} ELSE 0..((Len(chunk) - 8 - 1) \div 8)

\* struct.unpack('<Q', chunk[i:i+8])[0] for i = 8 * w
WordAt(chunk, w) == Unpack(SubSeq(chunk, 8 * w + 1, 8 * w + 8))

\* ptr_count after the loop of lines 29-35
PtrCount(chunk) == Cardinality({w \in WordIndexes(chunk) : IsPointer(WordAt(chunk, w))})

\* pte_count after the loop of lines 72-76
PteCount(chunk) == Cardinality({w \in WordIndexes(chunk) : IsPte(WordAt(chunk, w))})

\* sum(1 for b in chunk if 32 <= b <= 126)
Printable(chunk) == Cardinality({i \in 1..Len(chunk) : 32 <= chunk[i] /\ chunk[i] <= 126})

\* printable > len(chunk) * 0.7
MostlyPrintable(chunk) == Printable(chunk) * 10 > Len(chunk) * PrintableTenths

\* The snapshot.  Every 1 MB of the file starts with 4 KB made of one 8-byte
\* word repeated (the word depends on the script), the rest of the file is
\* zero; some scripts put a 64-byte ELF header at the start of such a 4 KB.
SpatialScripts ==
    {"zeros", "pointers", "text", "tables", "ptrtable", "textptr", "elf", "mixed"}

\* sizes of the mapped file: empty, one short chunk, a file that ends 20 bytes
\* into a chunk, and files with 5 and 9 chunks
SpatialSizes == {0, 2048, 3 * MB + 20, 5 * MB, 9 * MB}

\* the word repeated in the 4 KB at o, in file order (least significant first)
WordOf(scr, o) ==
    CASE scr = "zeros" -> <<0, 0, 0, 0, 0, 0, 0, 0>>
      [] scr = "pointers" -> <<0, 16, 0, 0, 0, 0, 255, 255>>
      [] scr = "text" -> <<65, 65, 65, 65, 65, 65, 65, 65>>
      [] scr \in {"tables", "elf"} -> <<3, 0, 0, 0, 0, 0, 0, 0>>
      [] scr = "ptrtable" -> <<1, 0, 64, 0, 0, 0, 0, 0>>
      [] scr = "textptr" -> <<65, 65, 65, 65, 65, 65, 0, 0>>
      [] scr = "mixed" ->
           CASE (o \div MB) % 4 = 0 -> <<0, 0, 0, 0, 0, 0, 0, 0>>
             [] (o \div MB) % 4 = 1 -> <<0, 16, 0, 0, 0, 0, 255, 255>>
             [] (o \div MB) % 4 = 2 -> <<3, 0, 0, 0, 0, 0, 0, 0>>
             [] (o \div MB) % 4 = 3 -> <<65, 65, 65, 65, 65, 65, 65, 65>>

\* a 64-bit little-endian header for AArch64 (e_machine 0xB7), type EXEC, entry
\* 0x400078, e_phoff 64, e_shoff 0x200, e_phnum 2
ElfHeader ==
    <<127, 69, 76, 70, 2, 1, 1, 0,   0, 0, 0, 0, 0, 0, 0, 0,
      2, 0, 183, 0, 1, 0, 0, 0,      120, 0, 64, 0, 0, 0, 0, 0,
      64, 0, 0, 0, 0, 0, 0, 0,       0, 2, 0, 0, 0, 0, 0, 0,
      0, 0, 0, 0, 64, 0, 56, 0,      2, 0, 64, 0, 0, 0, 0, 0>>

\* the script has an ELF header at o
HasElf(scr, o) == scr = "elf" /\ o \in {2 * MB, 3 * MB}

\* the byte at position p of the file
Byte(scr, p) ==
    LET o == (p \div MB) * MB
        r == p % MB
    IN IF r >= ChunkSize THEN 0
       ELSE IF HasElf(scr, o) /\ r < Len(ElfHeader) THEN ElfHeader[r + 1]
       ELSE WordOf(scr, o)[(r % 8) + 1]

\* mm.seek(o); mm.read(n)
MmRead(o, n) == [i \in 1..Min(n, file_size - o) |-> Byte(script, o + i - 1)]

\* mm.find(elf_magic, pos): the snapshot has the magic at the start of a 4 KB
\* or nowhere
MmFind(pos) ==
    LET hits == {p \in {k * MB : k \in 0..(file_size \div MB)} :
                    /\ p >= pos
                    /\ p + Len(elf_magic) <= file_size
                    /\ MmRead(p, Len(elf_magic)) = elf_magic}
    IN IF hits = {} THEN -1 ELSE CHOOSE p \in hits : \A q \in hits : p <= q

\* what the memory near the address of check_for_video_buffer holds
VideoScripts == {"frames", "flat", "dim", "blank", "varied"}

\* find_structures, or check_for_video_buffer, is to run twice over one snapshot
SpatialInit ==
    /\ entry \in {"spatial", "video_check"}
    /\ pc = "start"
    /\ IdleSockets
    /\ file_size \in IF entry = "spatial" THEN SpatialSizes ELSE {0}
    /\ script \in IF entry = "spatial" THEN SpatialScripts ELSE VideoScripts
    /\ sample_count = 0
    /\ sample = 0
    /\ offset = 0
    /\ change_counts = Empty
    /\ previous_hashes = Empty
    /\ flagged = <<>>
    /\ report = <<>>
    /\ IdleSpatial
    /\ written = <<>>
    /\ IdleElf

\* a run that keeps the lines of the run before
SpatialOpenKeeps ==
    /\ pc = "start"
    /\ entry = "spatial"
    /\ \/ pc' = "exited"
       \/ /\ file_size = 0
          /\ pc' = "raised"
       \/ /\ file_size > 0
          /\ pc' = "pointers"
    /\ offset' = 0
    /\ UNCHANGED <<inputs, net, reader, scan, file_size, sample_count, script, sample,
                   change_counts, previous_hashes, flagged, report, spatial, elf, mapping>>

\* open; mmap.mmap; len(mm): a missing file ends the program, an empty one makes
\* mmap raise ValueError, which nothing catches.  The output of the run starts
\* empty.
SpatialOpen ==
    /\ pc = "start"
    /\ entry = "spatial"
    /\ \/ pc' = "exited"
       \/ /\ file_size = 0
          /\ pc' = "raised"
       \/ /\ file_size > 0
          /\ pc' = "pointers"
    /\ offset' = 0
    /\ report' = <<>>
    /\ UNCHANGED <<inputs, net, reader, scan, file_size, sample_count, script, sample,
                   change_counts, previous_hashes, flagged, spatial, elf, mapping>>

\* the step of one of the first three passes to its next offset, or to the
\* next pass
NextOffset(step, after) ==
    IF offset + step < Min(file_size, PassLimit)
    THEN offset' = offset + step /\ pc' = pc
    ELSE offset' = 0 /\ pc' = after

\* lines 23-44 for one offset
SpatialPointers ==
    /\ pc = "pointers"
    /\ entry = "spatial"
    /\ LET chunk == MmRead(offset, ChunkSize)
           ptr_count == PtrCount(chunk)
       IN report' = IF ptr_count > PtrThreshold
                    THEN Append(report, <<"pointers", offset, ptr_count>>)
                    ELSE report
    /\ NextOffset(PointerStep, "strings")
    /\ UNCHANGED <<inputs, net, reader, scan, file_size, sample_count, script, sample,
                   change_counts, previous_hashes, flagged, spatial, elf, mapping>>

\* lines 48-59 for one offset
SpatialStrings ==
    /\ pc = "strings"
    /\ entry = "spatial"
    /\ LET chunk == MmRead(offset, ChunkSize)
       IN report' = IF MostlyPrintable(chunk)
                    THEN Append(report, <<"strings", offset, Printable(chunk)>>)
                    ELSE report
    /\ NextOffset(StringStep, "tables")
    /\ UNCHANGED <<inputs, net, reader, scan, file_size, sample_count, script, sample,
                   change_counts, previous_hashes, flagged, spatial, elf, mapping>>

\* lines 63-79 for one offset
SpatialPageTables ==
    /\ pc = "tables"
    /\ entry = "spatial"
    /\ LET chunk == MmRead(offset, ChunkSize)
           pte_count == PteCount(chunk)
       IN report' = IF offset % TableStep # 0 THEN report
                    ELSE IF pte_count > PteThreshold
                    THEN Append(report, <<"page_table", offset, pte_count>>)
                    ELSE report
    /\ NextOffset(TableStep, "elf")
    /\ UNCHANGED <<inputs, net, reader, scan, file_size, sample_count, script, sample,
                   change_counts, previous_hashes, flagged, spatial, elf, mapping>>

\* what lines 89-98 print for the header read at pos: class and machine when
\* 20 bytes or more were read
ElfLine(pos, header) ==
    IF Len(header) >= HeaderMin
    THEN <<"elf", pos, <<IF header[5] = 2 THEN "64-bit" ELSE "32-bit",
                         Unpack(SubSeq(header, 19, 20))>>>>
    ELSE <<"elf", pos, <<>>>>

\* one turn of the loop of lines 85-99 (offset is pos), and mm.close() after it
SpatialElf ==
    /\ pc = "elf"
    /\ entry = "spatial"
    /\ LET pos == MmFind(offset)
       IN IF offset < Min(file_size, ElfPassLimit) /\ pos # -1
          THEN /\ report' = Append(report, ElfLine(pos, MmRead(pos, HeaderRead)))
               /\ offset' = pos + 1
               /\ pc' = "elf"
          ELSE /\ report' = report
               /\ offset' = offset
               /\ pc' = "returned"
    /\ UNCHANGED <<inputs, net, reader, scan, file_size, sample_count, script, sample,
                   change_counts, previous_hashes, flagged, spatial, elf, mapping>>

(***************************************************************************)
(* find_elf_sections.py: check_for_video_buffer reads 1 KB at five offsets *)
(* from an address and looks at how many bytes are non-zero, how many      *)
(* values occur, and how many bytes are in the range of Y samples.         *)
(***************************************************************************)

\* read_memory(addr, 1024)
CheckSize == 1024
\* non_zero > 800, 50 < unique < 200, 16 <= b <= 235, y_like > 600
NonZeroMin == 800
UniqueLow == 50
UniqueHigh == 200
YLow == 16
YHigh == 235
YLikeMin == 600
\* the offsets of line 176
CheckOffsets == <<1048576, 2097152, 4194304, 8388608, 16777216>>

\* the byte at position i (from 0) of the 1 KB at offset off
VideoByte(scr, off, i) ==
    CASE scr = "frames" -> 16 + (i % 100)
      [] scr = "flat" -> 128
      [] scr = "dim" -> IF i % 2 = 0 THEN 1 + ((i \div 2) % 15) ELSE 16 + ((i \div 2) % 60)
      [] scr = "blank" -> 0
      [] scr = "varied" ->
           IF off = CheckOffsets[2] THEN 16 + (i % 100)
           ELSE IF off = CheckOffsets[4] THEN i % 256
           ELSE 0

\* read_memory(addr, 1024) answered whole
VideoSample(off) == [i \in 1..CheckSize |-> VideoByte(script, off, i - 1)]

\* len(set(sample)) and the count of line 190; NonZero is the count of line 182
Unique(s) == Cardinality({s[i] : i \in 1..Len(s)})
YLike(s) == Cardinality({i \in 1..Len(s) : YLow <= s[i] /\ s[i] <= YHigh})

\* what lines 183-192 print for the sample at offset off
VideoLines(off, s) ==
    IF NonZero(s) > NonZeroMin /\ UniqueLow < Unique(s) /\ Unique(s) < UniqueHigh
    THEN <<<<"video", off, Unique(s)>>>>
         \o (IF YLike(s) > YLikeMin THEN <<<<"yuv", off, YLike(s)>>>> ELSE <<>>)
    ELSE <<>>

\* the call: nothing is printed yet
VideoCheckStart ==
    /\ pc = "start"
    /\ entry = "video_check"
    /\ pc' = "checking"
    /\ offset' = 1
    /\ report' = <<>>
    /\ UNCHANGED <<inputs, net, reader, scan, file_size, sample_count, script, sample,
                   change_counts, previous_hashes, flagged, spatial, elf, mapping>>

\* the body of the loop for one offset (offset is the index in the list)
VideoCheck ==
    /\ pc = "checking"
    /\ entry = "video_check"
    /\ LET off == CheckOffsets[offset]
       IN report' = report \o VideoLines(off, VideoSample(off))
    /\ IF offset < Len(CheckOffsets)
       THEN offset' = offset + 1 /\ pc' = "checking"
       ELSE offset' = offset /\ pc' = "returned"
    /\ UNCHANGED <<inputs, net, reader, scan, file_size, sample_count, script, sample,
                   change_counts, previous_hashes, flagged, spatial, elf, mapping>>

\* the program is run once more over the same snapshot
SpatialAgain ==
    /\ pc = "returned"
    /\ entry \in {"spatial", "video_check"}
    /\ run = 1
    /\ run' = 2
    /\ earlier' = report
    /\ pc' = "start"
    /\ UNCHANGED <<inputs, net, reader, scan, temporal, elf, mapping>>

SpatialNext ==
    \/ SpatialOpen
    \/ SpatialPointers
    \/ SpatialStrings
    \/ SpatialPageTables
    \/ SpatialElf
    \/ VideoCheckStart
    \/ VideoCheck
    \/ SpatialAgain

SpatialSpec == SpatialInit /\ [][SpatialNext]_vars

(***************************************************************************)
(* The final reports: scan_memory_regions prints the five regions with the *)
(* most changes, find_changing_regions the ten offsets with the most.      *)
(***************************************************************************)

\* [:5] of scan_memory_regions
TopRegions == 5

\* the list with x put after the entries whose changes are not fewer
RECURSIVE InsertByChanges(_, _)
InsertByChanges(sorted, x) ==
    IF sorted = <<>> THEN <<x>>
    ELSE IF Head(sorted)[2] >= x[2]
    THEN <<Head(sorted)>> \o InsertByChanges(Tail(sorted), x)
    ELSE <<x>> \o sorted

\* sorted(l, key=lambda x: x[2], reverse=True): the sort is stable, entries
\* with equal changes stay in the order of l
RECURSIVE SortByChanges(_)
SortByChanges(l) ==
    IF l = <<>> THEN <<>>
    ELSE InsertByChanges(SortByChanges(SubSeq(l, 1, Len(l) - 1)), l[Len(l)])

\* the lines of "Most active regions" for a list of active regions, as
\* <<changes, addr>>
ScanTop(l) ==
    LET top == Take(SortByChanges(l), TopRegions)
    IN [i \in 1..Len(top) |-> <<top[i][2], top[i][1]>>]

\* the changes a region of the list is drawn with, 0 for a region that is not
\* active
ChangeValues == {0, 1, 7}

\* the list the loop collects when region i has the changes f[i]
Collected(f) ==
    LET idx == SelectSeq([i \in 1..Len(Regions) |-> i], LAMBDA i : f[i] > 0)
    IN [k \in 1..Len(idx) |-> <<Regions[idx[k]], f[idx[k]]>>]

\* the offsets and the counts the temporal report is drawn with
ReportFileSize == RegionSize + 3 * Stride + 1
ReportCounts == {0, 1, 2, 3}

\* the dict with the count f[i] for the i-th offset; an offset that never
\* changed has no key
Counted(f) ==
    LET keys == {i \in DOMAIN f : f[i] > 0}
    IN [o \in {(i - 1) * Stride : i \in keys} |-> f[(o \div Stride) + 1]]

\* the loops are over and the report is next
ReportInit ==
    /\ entry \in {"scan", "temporal"}
    /\ pc = "reporting"
    /\ IdleSession
    /\ IdleSpatial
    /\ written = <<>>
    /\ IdleElf
    /\ active_regions \in IF entry = "scan"
                          THEN {Collected(f) : f \in [1..Len(Regions) -> ChangeValues]}
                          ELSE {<<>>}
    /\ file_size = IF entry = "scan" THEN 0 ELSE ReportFileSize
    /\ sample_count = IF entry = "scan" THEN 0 ELSE 10
    /\ script = "none"
    /\ sample = sample_count
    /\ offset = 0
    /\ change_counts \in IF entry = "scan" THEN {Empty}
                         ELSE {Counted(f) : f \in [1..4 -> ReportCounts]}
    /\ previous_hashes = Empty
    /\ flagged = <<>>
    /\ report = <<>>

\* lines 129-132 of scan_memory_regions
ScanReport ==
    /\ pc = "reporting"
    /\ entry = "scan"
    /\ report' = ScanTop(active_regions)
    /\ pc' = "returned"
    /\ UNCHANGED <<inputs, net, reader, scan, file_size, sample_count, script, sample,
                   offset, change_counts, previous_hashes, flagged, spatial, elf, mapping>>

ReportNext ==
    \/ ScanReport
    \/ TemporalReport

ReportSpec == ReportInit /\ [][ReportNext]_vars

(***************************************************************************)
(* The ELF decoders: find_elf_headers and parse_program_headers of         *)
(* find_elf_sections.py for one address, and the ELF pass of               *)
(* find_structures for a file that starts with a header.                   *)
(***************************************************************************)

\* read_memory(addr, 64), len(data) >= 52, ei_class == 2
ElfRead == 64
ElfMin == 52
Class64 == 2
\* 56 bytes per program header, 56 * 8 bytes read
PhSize == 56
PhRead == 448
\* e_phoff < 0x10000
PhoffLimit == <<0, 0, 0, 0, 0, 1, 0, 0>>
\* seg_types
seg_types == {1, 2, 3, 4, 6}
\* start_addr
ElfStart == 1073741824

\* the value of an unpacked field that is known to fit in a TLC integer
RECURSIVE ToInt(_)
ToInt(val) ==
    IF val = <<>> THEN 0
    ELSE ToInt(SubSeq(val, 1, Len(val) - 1)) * 256 + val[Len(val)]

\* the two program headers of the image: LOAD R+X at 0x400000 (offset 0, sizes
\* 0x200) and LOAD R+W at 0x600000 (offset 0x200, file size 0x80, memory size
\* 0x100)
ProgramHeaders ==
    <<1, 0, 0, 0, 5, 0, 0, 0,        0, 0, 0, 0, 0, 0, 0, 0,
      0, 0, 64, 0, 0, 0, 0, 0,       0, 0, 64, 0, 0, 0, 0, 0,
      0, 2, 0, 0, 0, 0, 0, 0,        0, 2, 0, 0, 0, 0, 0, 0,
      0, 16, 0, 0, 0, 0, 0, 0,
      1, 0, 0, 0, 6, 0, 0, 0,        0, 2, 0, 0, 0, 0, 0, 0,
      0, 0, 96, 0, 0, 0, 0, 0,       0, 0, 96, 0, 0, 0, 0, 0,
      128, 0, 0, 0, 0, 0, 0, 0,      0, 1, 0, 0, 0, 0, 0, 0,
      0, 16, 0, 0, 0, 0, 0, 0>>

\* what follows the program header table: zeros, or the start of the text (an
\* instruction word 1, then data that reads as a writable segment)
Tails == {"zeros", "text"}
TailBytes(tail, i) ==
    IF tail = "zeros" THEN 0
    ELSE CASE i % PhSize = 0 -> 1
           [] i % PhSize = 4 -> 2
           [] i % PhSize = 17 -> 32
           [] i % PhSize = 41 -> 8
           [] OTHER -> 0

\* the bytes at the address: the header with one magic byte flipped (flip 1..4)
\* or none (0), the class and data bytes, the low three bytes of e_phoff, then
\* the program header table and what follows it
Image(flip, class, data, phoff, tail) ==
    [i \in 1..(ElfRead + PhRead) |->
        CASE i <= 4 -> IF i = flip THEN 255 - ElfHeader[i] ELSE ElfHeader[i]
          [] i = 5 -> class
          [] i = 6 -> data
          [] i \in 33..35 -> phoff[i - 32]
          [] i > 6 /\ i <= ElfRead /\ i \notin 33..35 -> ElfHeader[i]
          [] i > ElfRead /\ i <= ElfRead + Len(ProgramHeaders) -> ProgramHeaders[i - ElfRead]
          [] OTHER -> TailBytes(tail, i - ElfRead - Len(ProgramHeaders) - 1)]

\* e_phoff 0, 64 and 0x10000, least significant byte first
Phoffs == {<<0, 0, 0>>, <<64, 0, 0>>, <<0, 0, 1>>}

Images ==
    {Image(flip, class, data, phoff, tail) :
        flip \in 0..4, class \in 0..3, data \in 0..3, phoff \in Phoffs, tail \in Tails}

\* lengths of the file of the ELF pass: it ends inside or after the header
ElfFileSizes == {3, 4, 19, 20, 51, 52, 64, 512}

\* read_memory(addr + off, n), answered whole
ReadImage(off, n) == SubSeq(image, off + 1, Min(off + n, Len(image)))

\* data[a:b]
Slice(data, a, b) == SubSeq(data, a + 1, Min(b, Len(data)))

ElfInit ==
    /\ entry \in {"elf_headers", "elf_pass"}
    /\ pc = "start"
    /\ address = ElfStart
    /\ size = ElfRead
    /\ profile = "mock"
    /\ IdleReaders
    /\ active_regions = <<>>
    /\ \E img \in Images :
          image \in IF entry = "elf_headers" THEN {img}
                    ELSE {SubSeq(img, 1, n) : n \in ElfFileSizes}
    /\ file_size = IF entry = "elf_pass" THEN Len(image) ELSE 0
    /\ sample_count = 0
    /\ script = "none"
    /\ sample = 0
    /\ offset = 0
    /\ change_counts = Empty
    /\ previous_hashes = Empty
    /\ flagged = <<>>
    /\ report = <<>>
    /\ IdleSpatial
    /\ written = <<>>
    /\ found_elfs = <<>>
    /\ segments = <<>>

\* an offset test without the upper limit
PhoffNonZero(e_phoff) == ~ValLe(e_phoff, Zero64)

\* e_phoff > 0 and e_phoff < 0x10000
PhoffInRange(e_phoff) == ~ValLe(e_phoff, Zero64) /\ ~ValLe(PhoffLimit, e_phoff)

\* the record appended to found_elfs
ElfRecord(addr, data) ==
    [addr |-> addr,
     type |-> Unpack(Slice(data, 16, 18)),
     entry |-> Unpack(Slice(data, 24, 32)),
     sections |-> Unpack(Slice(data, 40, 48))]

\* the lines printed for a header
ElfHeaderLines(data) ==
    <<<<"Type", Unpack(Slice(data, 16, 18))>>,
      <<"Machine", Unpack(Slice(data, 18, 20))>>,
      <<"Entry", Unpack(Slice(data, 24, 32))>>,
      <<"Program headers", Unpack(Slice(data, 32, 40))>>,
      <<"Section headers", Unpack(Slice(data, 40, 48))>>>>

\* lines 54-63: the header is decoded
Decodes(data) ==
    /\ Slice(data, 0, 4) = elf_magic
    /\ Len(data) >= ElfMin
    /\ data[5] = Class64

\* read_memory(addr, 64) raises (the monitor is not there, or the connection
\* breaks): except Exception: pass, and the address is over
ElfUnreadable ==
    /\ pc = "start"
    /\ entry = "elf_headers"
    /\ error' = "unreadable"
    /\ pc' = "returned"
    /\ UNCHANGED <<inputs, net, cmd, attempts, noise, all_bytes, response, result, buffer,
                   scan, analysis>>

\* lines 52-89 for one address, up to the call of parse_program_headers; the
\* record is appended once that call is back
ElfDecodeHeader ==
    /\ pc = "start"
    /\ entry = "elf_headers"
    /\ LET data == ReadImage(0, ElfRead)
           e_phoff == Unpack(Slice(data, 32, 40))
       IN IF Decodes(data)
          THEN /\ report' = ElfHeaderLines(data)
               /\ IF PhoffInRange(e_phoff)
                  THEN pc' = "segments" /\ UNCHANGED found_elfs
                  ELSE /\ pc' = "returned"
                       /\ found_elfs' = Append(found_elfs, ElfRecord(address, data))
          ELSE /\ pc' = "returned"
               /\ UNCHANGED <<report, found_elfs>>
    /\ offset' = 0
    /\ UNCHANGED <<inputs, net, reader, scan, file_size, sample_count, script, sample,
                   change_counts, previous_hashes, flagged, spatial, mapping, image, segments>>

\* the flags string of lines 123-126
FlagNames(p_flags) ==
    (IF BitAnd(p_flags[4], 1) # 0 THEN <<"X">> ELSE <<>>)
    \o (IF BitAnd(p_flags[4], 2) # 0 THEN <<"W">> ELSE <<>>)
    \o (IF BitAnd(p_flags[4], 4) # 0 THEN <<"R">> ELSE <<>>)

\* an exception of the read of parse_program_headers that nothing catches
ElfSegmentsEscape ==
    /\ pc = "segments"
    /\ entry = "elf_headers"
    /\ offset = 0
    /\ error' = "unreadable"
    /\ pc' = "raised"
    /\ UNCHANGED <<inputs, net, cmd, attempts, noise, all_bytes, response, result, buffer,
                   scan, analysis>>

\* read_memory(base_addr + ph_offset, 56 * 8) raises: parse_program_headers
\* prints "Could not parse program headers" and returns, and find_elf_headers
\* appends the record
ElfSegmentsUnreadable ==
    /\ pc = "segments"
    /\ entry = "elf_headers"
    /\ offset = 0
    /\ error' = "unreadable"
    /\ found_elfs' = Append(found_elfs, ElfRecord(address, ReadImage(0, ElfRead)))
    /\ pc' = "returned"
    /\ UNCHANGED <<inputs, net, cmd, attempts, noise, all_bytes, response, result, buffer,
                   scan, temporal, spatial, mapping, image, segments>>

\* one turn of the loop of lines 111-133 (offset is i): the segment line is
\* printed when p_type is in seg_types; after the last turn the record is
\* appended
ElfSegment ==
    /\ pc = "segments"
    /\ entry = "elf_headers"
    /\ LET e_phoff == ToInt(Unpack(Slice(ReadImage(0, ElfRead), 32, 40)))
           ph_data == ReadImage(e_phoff, PhRead)
           i == offset
           p_type == Unpack(Slice(ph_data, i, i + 4))
           p_flags == Unpack(Slice(ph_data, i + 4, i + 8))
           p_vaddr == Unpack(Slice(ph_data, i + 16, i + 24))
           p_memsz == Unpack(Slice(ph_data, i + 40, i + 48))
           more == i < Min(Len(ph_data), PhRead) /\ i + PhSize <= Len(ph_data)
       IN /\ segments' =
               IF more /\ SubSeq(p_type, 1, 3) = <<0, 0, 0>> /\ p_type[4] \in seg_types
               THEN Append(segments, [type |-> p_type[4], vaddr |-> p_vaddr,
                                      memsz |-> p_memsz, flags |-> FlagNames(p_flags)])
               ELSE segments
          /\ IF more
             THEN offset' = i + PhSize /\ pc' = "segments" /\ UNCHANGED found_elfs
             ELSE /\ offset' = i
                  /\ pc' = "returned"
                  /\ found_elfs' =
                       Append(found_elfs, ElfRecord(address, ReadImage(0, ElfRead)))
    /\ UNCHANGED <<inputs, net, reader, scan, file_size, sample_count, script, sample,
                   change_counts, previous_hashes, flagged, report, spatial, mapping, image>>

\* lines 85-99 of find_structures for a file that is the image: the magic is
\* at 0 or nowhere
ElfPass ==
    /\ pc = "start"
    /\ entry = "elf_pass"
    /\ report' = IF Len(image) >= Len(elf_magic) /\ Slice(image, 0, 4) = elf_magic
                 THEN <<ElfLine(0, Slice(image, 0, HeaderRead))>>
                 ELSE <<>>
    /\ pc' = "returned"
    /\ UNCHANGED <<inputs, net, reader, scan, file_size, sample_count, script, sample,
                   offset, change_counts, previous_hashes, flagged, spatial, elf, mapping>>

ElfNext ==
    \/ ElfUnreadable
    \/ ElfDecodeHeader
    \/ ElfSegmentsUnreadable
    \/ ElfSegment
    \/ ElfPass

ElfSpec == ElfInit /\ [][ElfNext]_vars

(***************************************************************************)
(* test_memory_change.py and test_unused_memory.py: two more scans of the  *)
(* mapped file.  The first reads 4 KB at every 16 MB of the first 1 GB,    *)
(* twice; the second reads the last 1 MB.                                  *)
(***************************************************************************)

\* range(0, 1024*1024*1024, 16*1024*1024)
ChangeLimit == 1073741824
ChangeStride == 16777216
\* sample_size=0x100000
UnusedSampleSize == 1048576

\* sizes of the mapped file: empty, smaller than the sample of either scan, 1 MB
\* and a little more, and the full 1 GB
MappedSizes == {0, 4096, UnusedSampleSize, ChangeStride + 1, ChangeLimit}

MappedInit ==
    /\ entry \in {"temporal", "spatial", "memory_change", "unused_memory"}
    /\ pc = "start"
    /\ IdleSockets
    /\ file_size \in CASE entry = "temporal" -> FileSizes
                       [] entry = "spatial" -> {0, 2048, 3 * MB + 20}
                       [] OTHER -> MappedSizes
    /\ sample_count \in CASE entry = "temporal" -> SampleCounts
                          [] entry = "spatial" -> {0}
                          [] OTHER -> {2}
    /\ script \in CASE entry = "temporal" -> Scripts
                    [] entry = "spatial" -> {"mixed", "elf"}
                    [] OTHER -> {"static", "busy"}
    /\ sample = 0
    /\ offset = 0
    /\ change_counts = Empty
    /\ previous_hashes = Empty
    /\ flagged = <<>>
    /\ report = <<>>
    /\ IdleSpatial
    /\ written = <<>>
    /\ IdleElf

\* open(filepath, "r+b"); mmap.mmap(f.fileno(), 0, prot=mmap.PROT_READ): a
\* missing file raises FileNotFoundError, which test_unused_memory turns into
\* sys.exit(1) and test_memory_change does not catch; an empty file makes mmap
\* raise ValueError.  check_unused_memory then has end_offset = len(mm) -
\* sample_size.
MappedOpen ==
    /\ pc = "start"
    /\ entry \in {"memory_change", "unused_memory"}
    /\ \/ /\ pc' = IF entry = "unused_memory" THEN "exited" ELSE "raised"
          /\ error' = IF entry = "unused_memory" THEN error ELSE "FileNotFoundError"
          /\ offset' = offset
       \/ /\ file_size = 0
          /\ pc' = "raised"
          /\ error' = "ValueError"
          /\ offset' = offset
       \/ /\ file_size > 0
          /\ pc' = "seeking"
          /\ error' = error
          /\ offset' = IF entry = "unused_memory" THEN file_size - UnusedSampleSize ELSE 0
    /\ UNCHANGED <<inputs, net, cmd, attempts, noise, all_bytes, response, result, buffer,
                   scan, file_size, sample_count, script, sample, change_counts,
                   previous_hashes, flagged, report, spatial, elf, mapping>>

\* mm.seek(dest): ValueError for a destination below 0 or above the size
SeekRaises(dest) == dest < 0 \/ dest > file_size

\* mm.seek(offset); mm.read(4096) of test_memory_change for one offset: the
\* first pass stores the checksum, the second compares
ChangeSample ==
    /\ pc = "seeking"
    /\ entry = "memory_change"
    /\ IF SeekRaises(offset)
       THEN /\ pc' = "raised"
            /\ error' = "ValueError"
            /\ UNCHANGED <<offset, sample, previous_hashes, report>>
       ELSE /\ LET checksum == Md5(SampleData(script, offset, sample))
               IN IF sample = 0
                  THEN /\ previous_hashes' =
                            [o \in DOMAIN previous_hashes \cup {offset} |->
                                IF o = offset THEN checksum ELSE previous_hashes[o]]
                       /\ report' = report
                  ELSE /\ previous_hashes' = previous_hashes
                       /\ report' = IF checksum # previous_hashes[offset]
                                    THEN Append(report, <<"changed", offset>>)
                                    ELSE report
            /\ error' = error
            /\ IF offset + ChangeStride < ChangeLimit
               THEN offset' = offset + ChangeStride /\ sample' = sample /\ pc' = "seeking"
               ELSE /\ offset' = 0
                    /\ sample' = sample + 1
                    /\ pc' = IF sample = 0 THEN "seeking" ELSE "returned"
    /\ UNCHANGED <<inputs, net, cmd, attempts, noise, all_bytes, response, result, buffer,
                   scan, file_size, sample_count, script, change_counts, flagged,
                   spatial, elf, mapping>>

\* a check that clears the memory it has looked at
UnusedReadClears ==
    /\ pc = "seeking"
    /\ entry = "unused_memory"
    /\ IF SeekRaises(offset)
       THEN pc' = "raised" /\ error' = "ValueError" /\ report' = report
                           /\ written' = written
       ELSE /\ pc' = "returned"
            /\ error' = error
            /\ report' = <<<<"unused", offset, Min(UnusedSampleSize, file_size - offset)>>>>
            /\ written' = Append(written, <<offset, Zeros(1)>>)
    /\ UNCHANGED <<inputs, net, cmd, attempts, noise, all_bytes, response, result, buffer,
                   scan, file_size, sample_count, script, sample, offset, change_counts,
                   previous_hashes, flagged, spatial, elf>>

\* mm.seek(end_offset); data = mm.read(sample_size) of check_unused_memory, and
\* the counts printed
UnusedRead ==
    /\ pc = "seeking"
    /\ entry = "unused_memory"
    /\ IF SeekRaises(offset)
       THEN pc' = "raised" /\ error' = "ValueError" /\ report' = report
       ELSE /\ pc' = "returned"
            /\ error' = error
            /\ report' = <<<<"unused", offset, Min(UnusedSampleSize, file_size - offset)>>>>
    /\ UNCHANGED <<inputs, net, cmd, attempts, noise, all_bytes, response, result, buffer,
                   scan, file_size, sample_count, script, sample, offset, change_counts,
                   previous_hashes, flagged, spatial, elf, mapping>>

MappedNext ==
    \/ TemporalOpen
    \/ TemporalSample
    \/ TemporalReport
    \/ SpatialOpen
    \/ SpatialPointers
    \/ SpatialStrings
    \/ SpatialPageTables
    \/ SpatialElf
    \/ MappedOpen
    \/ ChangeSample
    \/ UnusedRead

MappedSpec == MappedInit /\ [][MappedNext]_vars

(***************************************************************************)
(* Properties.                                                             *)
(***************************************************************************)

\* the entry point is over: it returned, raised, or its caller went on
Done == pc \in {"returned", "raised", "consumed"}

\* memory[address .. address + size - 1]
Expected == [i \in 1..size |-> Mem(address + i - 1)]

\* C1: over a transport that answers every request with the bytes stored at
\* the requested addresses, a chunked read (read_memory_region, read_memory of
\* find_elf_sections.py) returns exactly memory[address .. address+size-1] in
\* address order, wherever the 256-byte chunk boundaries fall and however the
\* reply is laid out in lines.
C1_ChunkingTransparent ==
    (profile = "mock" /\ Chunked(entry) /\ Done) => result = Expected

\* a mock read of three chunks from an address that is no multiple of 16 has
\* returned all its bytes
C1_Witness ==
    /\ profile = "mock"
    /\ Chunked(entry)
    /\ size > 2 * ChunkCap
    /\ address % 16 # 0
    /\ pc = "returned"
    /\ Len(result) = size

\* C2: a chunk whose reply cannot be parsed is requested again exactly once
\* and then the read fails with PartialReadError: no chunk is requested more
\* than twice.
C2_NoThirdRequest == Chunked(entry) => attempts <= 2

\* C3: a failed chunked read reports the bytes it obtained (and so the
\* shortfall): the bytes obtained before the failure are not dropped.
C3_FailureKeepsBytes ==
    (Chunked(entry) /\ Done /\ error # "none") => result = all_bytes

\* C4: every byte of a buffer handed to a consumer was received for that read:
\* the buffer is what the read returned, or the start of it, never longer and
\* never filled up with zeros.
C4_NoFabricatedData ==
    buffer # NoBuffer =>
        /\ Len(buffer) <= Len(result)
        /\ buffer = SubSeq(result, 1, Len(buffer))

\* C5: every request to the text monitor, from every entry point, asks for at
\* most 256 bytes, and asks for them at address + the number of bytes already
\* obtained.
C5_RequestCapped ==
    pc = "sent" =>
        /\ ParseCmd(cmd).count <= ChunkCap
        /\ ParseCmd(cmd).addr = address + Len(all_bytes)

\* C6: a request is sent on a session only after the whole reply to the
\* previous one has been received: when a request has just been sent, nothing
\* of an earlier reply (reply lines of the monitor, checksum digits of a GDB
\* packet) is still waiting to be read.
C6_OneInFlight ==
    /\ pc = "sent" => wire["mon"] = <<>>
    /\ pc = "g_sent" => wire["gdb"] = <<>>

\* C7: when an entry point is over, normally or by an error, no socket it
\* opened is still open.
C7_SessionsClosed == Done => \A s \in Sessions : sock[s] # "open"

\* C8: every read returns, whatever the peer does: no read waits for ever in a
\* receive and none goes round a loop that nothing ends.
C8_ReadReturns == pc \notin {"blocked", "spinning"}

\* C9: on every session the first operation after connect is a receive (the
\* greeting or handshake, which is dropped); no request is sent before it.
C9_GreetingFirst ==
    \A s \in Sessions : ops[s] # <<>> => ops[s][1] = "recv"

\* the QMP and the GDB session of a scan have both received, then sent
C9_Witness ==
    /\ ops["qmp"] = <<"recv", "send">>
    /\ ops["gdb"] = <<"recv", "send">>

\* C10: tokenization is lenient and total: the valid hex bytes after the
\* address colon contribute one byte each, in order, and every other token (no
\* 0x, no valid hex, or no byte value) contributes nothing: what the readers
\* without a chunk loop return is what the parse loop gives when the tokens that
\* are no byte value are left out.
C10_OnlyByteTokens ==
    (entry \in {"video", "sample"} /\ pc = "returned" /\ error = "none") =>
        result = LineLoop(SplitOn(response, "\n"), <<>>, 0, TRUE, TRUE, FALSE)

\* C11: a GDB reply that carries an error code (E..) in place of hex data, or
\* that is no well-formed success packet, makes read_memory_gdb return no data;
\* it never raises.  (When the next request is about to be sent, response is
\* the text the last read collected.)
C11_ErrorReplyNoRaise ==
    pc \in {"g_send", "q_send"} => GdbParse(response).kind # "raise"

\* the lowercase hexadecimal digits
LowerHex == {HexChars[i] : i \in 1..Len(HexChars)}

\* C12: every GDB memory-read request is $m<address in hex>,<length in hex>#cc
\* with cc exactly two lowercase hex digits whose value is the sum of the
\* payload's characters modulo 256.
C12_RequestFormat ==
    pc = "g_sent" =>
        LET comma == FindChar(cmd, ",")
            hash == FindChar(cmd, "#")
            addr == SubSeq(cmd, 3, comma - 1)
            len == SubSeq(cmd, comma + 1, hash - 1)
            cc == SubSeq(cmd, hash + 1, Len(cmd))
        IN /\ cmd[1] = "$" /\ cmd[2] = "m"
           /\ comma > 3 /\ hash > comma + 1
           /\ \A i \in 1..Len(addr) : addr[i] \in LowerHex
           /\ \A i \in 1..Len(len) : len[i] \in LowerHex
           /\ DigitsVal(addr) = GdbAddr
           /\ DigitsVal(len) = GdbSize
           /\ Len(cc) = 2 /\ cc[1] \in LowerHex /\ cc[2] \in LowerHex
           /\ DigitVal(cc[1]) * 16 + DigitVal(cc[2])
                = SumOrd(SubSeq(cmd, 2, hash - 1)) % 256

\* a request of the closer scan (length 0x100) at the second region has been sent
C12_Witness ==
    /\ pc = "g_sent"
    /\ slot = "s1"
    /\ ri = 2

\* the number of consecutive sample pairs (k, k+1) at offset o whose data,
\* and so whose hashes, differ
PairsDiffering(o) ==
    Cardinality({k \in 0..(sample_count - 2) :
                    SampleData(script, o, k) # SampleData(script, o, k + 1)})

\* the offsets find_changing_regions samples
SampledOffsets == {TemporalOffsets[i] : i \in 1..Len(TemporalOffsets)}

\* C13: temporal mode: after every address was sampled sample_count times, the
\* change count of an address is the number of consecutive sample pairs whose
\* hashes differ, and the addresses reported active are exactly those whose
\* count is at least the minimum-changes threshold.
C13_ActiveIffThreshold ==
    (entry = "temporal" /\ pc = "returned") =>
        /\ \A o \in SampledOffsets :
              (IF o \in DOMAIN change_counts THEN change_counts[o] ELSE 0)
                 = PairsDiffering(o)
        /\ {report[i][2] : i \in 1..Len(report)}
              = {o \in SampledOffsets : PairsDiffering(o) >= MinChanges}


\* the offsets the three sampling passes of find_structures look at
SpatialOffsets == {k * MB : k \in 0..((Min(file_size, PassLimit) - 1) \div MB)}

\* the lines of the run that are about offset o
VerdictsAt(o) == {i \in 1..Len(report) : report[i][2] = o}

\* C14: when find_structures is over, every sampled offset has exactly one
\* verdict: no offset is reported under two kinds, and an offset where no
\* signal crosses its threshold is reported as unclassified.
C14_OneVerdictPerOffset ==
    (entry = "spatial" /\ pc = "returned") =>
        \A o \in SpatialOffsets : Cardinality(VerdictsAt(o)) = 1


\* the fixed precedence of the kinds find_structures reports, 1 the highest
Precedence(kind) ==
    CASE kind = "elf" -> 1
      [] kind = "page_table" -> 2
      [] kind = "pointers" -> 3
      [] kind = "strings" -> 4

\* the window at o crosses the threshold of the kind
Signal(kind, o) ==
    LET chunk == MmRead(o, ChunkSize)
    IN CASE kind = "elf" -> SubSeq(chunk, 1, Min(Len(chunk), Len(elf_magic))) = elf_magic
         [] kind = "page_table" -> PteCount(chunk) > PteThreshold
         [] kind = "pointers" -> PtrCount(chunk) > PtrThreshold
         [] kind = "strings" -> MostlyPrintable(chunk)

\* C15: a window that crosses the thresholds of several kinds is reported
\* under the kind highest in the precedence only: no line of the run names a
\* kind while a kind of higher precedence has its signal at the same offset.
C15_HighestPrecedenceOnly ==
    (entry = "spatial" /\ pc = "returned") =>
        \A i \in 1..Len(report) :
            \A kind \in {"elf", "page_table", "pointers", "strings"} :
                Precedence(kind) < Precedence(report[i][1]) => ~Signal(kind, report[i][2])


TiesByAddress ==
    LET ties == {p \in (1..Len(report)) \X (1..Len(report)) :
                    p[1] < p[2] /\ report[p[1]][1] = report[p[2]][1]}
    IN \/ \A p \in ties : report[p[1]][2] < report[p[2]][2]
       \/ \A p \in ties : report[p[1]][2] > report[p[2]][2]

\* l[::-1]
Reversed(l) == [i \in 1..Len(l) |-> l[Len(l) + 1 - i]]

\* C17: the report lists the findings by score first and by address second:
\* scores never rise down the list, entries of equal score are in the order of
\* their addresses, and the entries chosen are the same when the findings were
\* collected in the opposite order.
C17_TopKReproducible ==
    (entry \in {"scan", "temporal"} /\ pc = "returned") =>
        /\ \A i \in 1..(Len(report) - 1) : report[i][1] >= report[i + 1][1]
        /\ TiesByAddress
        /\ entry = "scan" => report = ScanTop(Reversed(active_regions))


\* C18: a buffer that does not start with 7f 45 4c 46, or that is shorter than
\* 52 bytes, gives no record: nothing is appended to found_elfs and no header
\* is printed, by find_elf_headers and by the ELF pass of find_structures.
C18_NoRecordWithoutHeader ==
    (entry \in {"elf_headers", "elf_pass"} /\ pc = "returned") =>
        ((Slice(image, 0, 4) # elf_magic \/ Len(image) < ElfMin) =>
            found_elfs = <<>> /\ report = <<>>)

\* C19: find_elf_headers gives a header record only for the class byte 2
\* (64-bit) together with the data byte 1 (little-endian).
C19_Only64BitLittleEndian ==
    (entry = "elf_headers" /\ found_elfs # <<>>) =>
        image[5] = 2 /\ image[6] = 1

\* the header and the segments that the well-formed image encodes
EncodedHeader ==
    [type |-> <<0, 2>>,
     machine |-> <<0, 183>>,
     entry |-> <<0, 0, 0, 0, 0, 64, 0, 120>>,
     phoff |-> <<0, 0, 0, 0, 0, 0, 0, 64>>,
     shoff |-> <<0, 0, 0, 0, 0, 0, 2, 0>>]
EncodedSegments ==
    <<[type |-> 1, vaddr |-> <<0, 0, 0, 0, 0, 64, 0, 0>>,
       memsz |-> <<0, 0, 0, 0, 0, 0, 2, 0>>, flags |-> <<"X", "R">>],
      [type |-> 1, vaddr |-> <<0, 0, 0, 0, 0, 96, 0, 0>>,
       memsz |-> <<0, 0, 0, 0, 0, 0, 1, 0>>, flags |-> <<"W", "R">>]>>

\* C20: for the well-formed 64-bit little-endian image with two program
\* headers, the record and the printed header have the encoded type, machine,
\* entry, program-header offset and section-header offset, and the segments
\* are the two encoded ones and no more, whatever follows the table.
C20_ExactFieldsAndSegments ==
    (entry = "elf_headers" /\ pc = "returned" /\ error = "none"
        /\ SubSeq(image, 1, ElfRead) = ElfHeader) =>
        /\ found_elfs = <<[addr |-> address, type |-> EncodedHeader.type,
                           entry |-> EncodedHeader.entry,
                           sections |-> EncodedHeader.shoff]>>
        /\ report = <<<<"Type", EncodedHeader.type>>,
                      <<"Machine", EncodedHeader.machine>>,
                      <<"Entry", EncodedHeader.entry>>,
                      <<"Program headers", EncodedHeader.phoff>>,
                      <<"Section headers", EncodedHeader.shoff>>>>
        /\ segments = EncodedSegments


\* the image has a program-header offset that is not 0 and is below 0x10000:
\* its bytes above the second are zero and the low two are not both zero
ImagePhoffSane ==
    /\ \A i \in 35..40 : image[i] = 0
    /\ image[33] # 0 \/ image[34] # 0

\* the type byte of the j-th (from 0) 56-byte record at the image's e_phoff,
\* -1 when the record is not whole in what was read
RecordType(j) ==
    LET start == ElfRead + PhSize * j
    IN IF start + PhSize <= Len(image) /\ PhSize * (j + 1) <= PhRead
       THEN image[start + 1]
       ELSE -1

CompleteRecord(r) ==
    /\ DOMAIN r = {"addr", "type", "entry", "sections"}
    /\ r.addr = address
    /\ Len(r.type) = 2
    /\ Len(r.entry) = 8
    /\ Len(r.sections) = 8

AllWords(chunk) == 0..((Len(chunk) \div 8) - 1)

\* C23: the count printed by the pointer pass, and by the page-table pass, is
\* the number of all complete 8-byte words of the window that pass the test,
\* the last word included.
C23_EveryWordCounted ==
    (entry = "spatial" /\ pc = "returned") =>
        \A i \in 1..Len(report) :
            LET chunk == MmRead(report[i][2], ChunkSize)
            IN /\ report[i][1] = "pointers" =>
                    report[i][3] =
                        Cardinality({w \in AllWords(chunk) : IsPointer(WordAt(chunk, w))})
               /\ report[i][1] = "page_table" =>
                    report[i][3] =
                        Cardinality({w \in AllWords(chunk) : IsPte(WordAt(chunk, w))})


\* C24: the yuv-like signal is one computation with one threshold at every
\* call site: a window that check_for_video_buffer takes for video is reported
\* as YUV exactly when the test of scan_memory_ranges calls it yuv-like too.
C24_OneYuvSignal ==
    (entry = "video_check" /\ pc = "returned") =>
        \A i \in 1..Len(report) :
            report[i][1] = "video" =>
                ((\E j \in 1..Len(report) :
                      report[j][1] = "yuv" /\ report[j][2] = report[i][2])
                 <=> ScanYuvLike(VideoSample(report[i][2])))


\* C25: a scan of the mapped file seeks only to offsets from 0 to the size of
\* the file, whatever that size is: the offset a scan is about to seek to and
\* read at is never negative and never past the end of the mapping.
C25_SeeksInBounds ==
    (entry \in {"temporal", "memory_change", "unused_memory"}
        /\ pc \in {"sampling", "seeking"}) =>
            0 <= offset /\ offset <= file_size


\* C26: no step of a scan of the mapped file writes through the mapping: at
\* every point of find_changing_regions, find_structures, test_memory_change
\* and check_unused_memory nothing has been written to the file.
C26_MappingNeverWritten ==
    entry \in {"temporal", "spatial", "memory_change", "unused_memory"} =>
        written = <<>>

\* check_unused_memory has read the end of the file and is over
C26_Witness ==
    /\ entry = "unused_memory"
    /\ pc = "returned"
    /\ report # <<>>


\* C27: a failure of the transport while one region is read does not end the
\* scan: while regions of the list are still to come, scan_memory_regions is
\* never stopped for good inside a GDB read (waiting in a receive, or going
\* round the receive loop of a closed connection).
C27_ScanGoesOn ==
    (entry = "scan" /\ ri < MaxRegions /\ cmd # <<>> /\ cmd[1] = "$") =>
        pc \notin {"blocked", "spinning"}


\* C28: a buffer returned by a read over the text monitor holds byte values
\* only: every element of what read_memory_region, read_memory of
\* find_video_memory and read_memory_sample return is from 0 to 255.
C28_ElementsAreBytes ==
    (entry \in {"region", "video", "sample"} /\ pc = "returned") =>
        \A i \in 1..Len(result) : result[i] \in 0..255


\* C29: a read of size bytes returns at most size bytes: what read_memory of
\* find_elf_sections, read_memory_region and read_memory of find_video_memory
\* return is never longer than the size asked for, whatever the reply holds.
C29_AtMostSize ==
    (entry \in {"elf", "region", "video"} /\ pc = "returned") =>
        Len(result) <= size


\* the second sample of a region, as the loop body receives it
SecondSample == GdbParse(response').val

\* the step in which the loop body compares the two samples of a region
Compared ==
    /\ entry = "scan"
    /\ slot = "sample2"
    /\ slot' # "sample2"
    /\ GdbParse(response').kind = "bytes"
    /\ SecondSample # <<>>

\* C30: in the two-sample scan a region is added to the active list if and
\* only if its two samples differ: whenever the two samples are compared, the
\* list grows exactly when the first sample is not equal to the second, be the
\* first all zeros or the two of different lengths.
C30_ActiveIffDiffer ==
    [][Compared =>
          ((active_regions' # active_regions) <=> (sample1 # SecondSample))]_vars

====
